---- MODULE Spec2Model ----
(***************************************************************************)
(* Model of scripts/profile-manager.py: the profile reconciliation and    *)
(* import-planning engine (redactor, catalog builder, saved-state         *)
(* tracker, selection reconciler, import planner, publish client).        *)
(*                                                                         *)
(* Text is modelled as a sequence of one-character strings, so that       *)
(* str.lower(), str.strip(), sorted() and slugify() are computed          *)
(* character by character as Python computes them.                        *)
(***************************************************************************)
EXTENDS Integers, Sequences, FiniteSets, TLC

VARIABLES
    host_os,      \* platform.system().lower() of the machine the tool runs on
    state_file,   \* the persisted profile-state.json document
    export_out,   \* a cmd_export invocation: its inputs, then its output
    plan_out,     \* a cmd_plan_import invocation: its inputs, then its result
    posted,       \* what the last invocation sent to the hosting service
    redact_io,    \* a redact_value call: its argument, then its result
    cmd_out       \* what the last saved-apps, tombstone or install-item printed

vars == <<host_os, state_file, export_out, plan_out, posted, redact_io, cmd_out>>

(***************************************************************************)
(* Bounds of the model.                                                    *)
(***************************************************************************)
MaxPlanItems == 2   \* longest profile.items list handed to plan-import
MaxTextLen == 5     \* longest text, in units, handed to the redactor
MaxListLen == 2     \* longest list inside a value handed to the redactor

(***************************************************************************)
(* Characters and strings.                                                 *)
(***************************************************************************)
UpperLetters == <<"A","B","C","D","E","F","G","H","I","J","K","L","M",
                  "N","O","P","Q","R","S","T","U","V","W","X","Y","Z">>
LowerLetters == <<"a","b","c","d","e","f","g","h","i","j","k","l","m",
                  "n","o","p","q","r","s","t","u","v","w","x","y","z">>
Digits == <<"0","1","2","3","4","5","6","7","8","9">>

\* The characters of the model in ascending code-point order.
CodeOrder == <<" ">> \o <<"-", ".">> \o Digits \o <<":">> \o UpperLetters
             \o <<"_">> \o LowerLetters

IndexOf(seq, c) == CHOOSE i \in 1..Len(seq) : seq[i] = c
Occurs(seq, c) == \E i \in 1..Len(seq) : seq[i] = c

Ord(c) == IndexOf(CodeOrder, c)

\* str.lower(), one character
LowerChar(c) == IF Occurs(UpperLetters, c)
                THEN LowerLetters[IndexOf(UpperLetters, c)] ELSE c

\* str.lower()
Lower(s) == [i \in 1..Len(s) |-> LowerChar(s[i])]

RECURSIVE StripLeft(_, _)
StripLeft(s, c) == IF s # <<>> /\ Head(s) = c THEN StripLeft(Tail(s), c) ELSE s

RECURSIVE StripRight(_, _)
StripRight(s, c) == IF s # <<>> /\ s[Len(s)] = c
                    THEN StripRight(SubSeq(s, 1, Len(s) - 1), c) ELSE s

\* str.strip(c)
StripChar(s, c) == StripRight(StripLeft(s, c), c)

\* str.strip(): the only whitespace of the model is the blank
Strip(s) == StripChar(s, " ")

\* Python's < on str: lexicographic by code point
RECURSIVE StrLess(_, _)
StrLess(a, b) ==
    IF b = <<>> THEN FALSE
    ELSE IF a = <<>> THEN TRUE
    ELSE IF Head(a) # Head(b) THEN Ord(Head(a)) < Ord(Head(b))
    ELSE StrLess(Tail(a), Tail(b))

RECURSIVE InsertSorted(_, _)
InsertSorted(x, sorted) ==
    IF sorted = <<>> THEN <<x>>
    ELSE IF StrLess(x, Head(sorted)) THEN <<x>> \o sorted
    ELSE <<Head(sorted)>> \o InsertSorted(x, Tail(sorted))

\* sorted(list of str)
RECURSIVE SortedStrs(_)
SortedStrs(list) ==
    IF list = <<>> THEN <<>>
    ELSE InsertSorted(list[Len(list)], SortedStrs(SubSeq(list, 1, Len(list) - 1)))

Range(seq) == {seq[i] : i \in 1..Len(seq)}

\* all sequences over S of length at most n
SeqsUpTo(S, n) == UNION {[1..k -> S] : k \in 0..n}

(***************************************************************************)
(* Operating systems.                                                      *)
(***************************************************************************)
OS_macos == <<"m","a","c","o","s">>
OS_linux == <<"l","i","n","u","x">>
OS_windows == <<"w","i","n","d","o","w","s">>
OS_darwin == <<"d","a","r","w","i","n">>

ALL_OSES == <<OS_macos, OS_linux, OS_windows>>

\* what platform.system().lower() can be
HostSystems == {OS_darwin, OS_windows, OS_linux}

normalize_os(raw, host) ==
    LET value == Lower(Strip(raw)) IN
    IF value \in {OS_darwin, <<"m","a","c">>, OS_macos, <<"o","s","x">>} THEN OS_macos
    ELSE IF value \in {OS_linux} THEN OS_linux
    ELSE IF value \in {OS_windows, <<"w","i","n","3","2">>,
                       <<"c","y","g","w","i","n">>, <<"m","s","y","s">>} THEN OS_windows
    ELSE IF host = OS_darwin THEN OS_macos
    ELSE IF host = OS_windows THEN OS_windows
    ELSE OS_linux

(***************************************************************************)
(* Redactor (redact_text, redact_value).                                   *)
(*                                                                         *)
(* A text handed to the redactor is a sequence of lexical units; a unit    *)
(* stands for the literal substring it shows.  The units are: two          *)
(* sensitive key words in different letter case, the two separators, the   *)
(* blank, the double quote, the comma, one ordinary word character, one    *)
(* vendor-prefixed key (sk- and twelve letters), one opaque run of thirty  *)
(* letters, and the redaction marker.  No key word, vendor prefix or       *)
(* marker arises across the border of two units.  A text holds at most one *)
(* vendor-prefixed key, so that a match never ends inside a unit.          *)
(***************************************************************************)
Marker == "<redacted>"
SkKey == "sk-abcdefghijkl"
Long30 == "aaaaaaaaaaaaaaaaaaaaaaaaaaaaaa"
Quote == "\""

TextKeywords == {"token", "Secret"}
Separators == {":", "="}
TextUnits == TextKeywords \cup Separators
             \cup {" ", Quote, ",", "x", SkKey, Long30, Marker}

\* the fixed texts of install and verification descriptors; the redactor
\* changes none of them
InertUnits == {"manual", "package", "mcp", "user", "Manual setup required",
               "Share this skill package separately or install manually",
               "Custom skill detected. Share/install the skill directory manually.",
               "Document and apply manually", "Set model preference manually",
               "brew install fzf", "npx", "--key"}

AllUnits == TextUnits \cup InertUnits

\* units made only of [A-Za-z0-9]
AlnumUnits == {"x", "token", "Secret", Long30}
\* units made only of [A-Za-z0-9_-], beginning and ending with a word character
RunUnits == AlnumUnits \cup {SkKey}

\* number of characters of a unit
Width(u) ==
    CASE u = "token" -> 5
      [] u = "Secret" -> 6
      [] u = SkKey -> 15
      [] u = Long30 -> 30
      [] u = Marker -> 10
      [] OTHER -> 1

\* {30,} of the last SENSITIVE_VALUE_PATTERNS entry
LongTokenMin == 30

\* first index from i on whose unit is not in S (Len(s) + 1 if none)
RECURSIVE SkipWhile(_, _, _)
SkipWhile(s, i, S) ==
    IF i <= Len(s) /\ s[i] \in S THEN SkipWhile(s, i + 1, S) ELSE i

RECURSIVE WidthSum(_, _, _)
WidthSum(s, i, j) == IF i > j THEN 0 ELSE Width(s[i]) + WidthSum(s, i + 1, j)

\* first substitution of redact_text:
\*   ("?KEY"?\s*[:=]\s*")([^"]+)(")  ->  \1<redacted>\3
\* tried at key word s[i]; gives the indexes of the opening and closing quote
\* of the value, or 0 when there is no match
QuotedValueAt(s, i) ==
    LET afterKey == IF i + 1 <= Len(s) /\ s[i + 1] = Quote THEN i + 2 ELSE i + 1
        sep == SkipWhile(s, afterKey, {" "})
        open == SkipWhile(s, sep + 1, {" "})
        close == SkipWhile(s, open + 1, AllUnits \ {Quote})
    IN IF /\ sep <= Len(s) /\ s[sep] \in Separators
          /\ open <= Len(s) /\ s[open] = Quote
          /\ close <= Len(s) /\ close > open + 1
       THEN [open |-> open, close |-> close]
       ELSE [open |-> 0, close |-> 0]

RECURSIVE SubQuoted(_, _)
SubQuoted(s, i) ==
    IF i > Len(s) THEN <<>>
    ELSE IF s[i] \in TextKeywords /\ QuotedValueAt(s, i).open # 0
    THEN LET m == QuotedValueAt(s, i) IN
         SubSeq(s, i, m.open) \o <<Marker, Quote>> \o SubQuoted(s, m.close + 1)
    ELSE <<s[i]>> \o SubQuoted(s, i + 1)

\* second substitution of redact_text:
\*   (KEY)\s*[:=]\s*([^\s,;]+)  ->  \1=<redacted>
\* tried at key word s[i]; gives the index of the last unit of the value, or 0
BareValueAt(s, i) ==
    LET sep == SkipWhile(s, i + 1, {" "})
        first == SkipWhile(s, sep + 1, {" "})
        last == SkipWhile(s, first, AllUnits \ {" ", ","}) - 1
    IN IF /\ sep <= Len(s) /\ s[sep] \in Separators
          /\ first <= Len(s) /\ last >= first
       THEN last ELSE 0

RECURSIVE SubBare(_, _)
SubBare(s, i) ==
    IF i > Len(s) THEN <<>>
    ELSE IF s[i] \in TextKeywords /\ BareValueAt(s, i) # 0
    THEN <<s[i], "=", Marker>> \o SubBare(s, BareValueAt(s, i) + 1)
    ELSE <<s[i]>> \o SubBare(s, i + 1)

\* \b(sk-[A-Za-z0-9]{12,})\b  ->  <redacted>
RECURSIVE SubVendorKey(_, _)
SubVendorKey(s, i) ==
    IF i > Len(s) THEN <<>>
    ELSE IF s[i] = SkKey /\ (i = 1 \/ s[i - 1] \notin RunUnits)
    THEN <<Marker>> \o SubVendorKey(s, SkipWhile(s, i + 1, AlnumUnits))
    ELSE <<s[i]>> \o SubVendorKey(s, i + 1)

\* \b[A-Za-z0-9_\-]{30,}\b  ->  <redacted>, tried at the start of each
\* maximal run of such characters
RECURSIVE SubLongToken(_, _)
SubLongToken(s, i) ==
    IF i > Len(s) THEN <<>>
    ELSE IF s[i] \in RunUnits
    THEN LET next == SkipWhile(s, i, RunUnits) IN
         (IF WidthSum(s, i, next - 1) >= LongTokenMin THEN <<Marker>>
          ELSE SubSeq(s, i, next - 1))
         \o SubLongToken(s, next)
    ELSE <<s[i]>> \o SubLongToken(s, i + 1)

\* redact_text, mutated: it returns after the first rule that changed the text
redact_text_first_rule_only(value) ==
    IF SubQuoted(value, 1) # value THEN SubQuoted(value, 1)
    ELSE IF SubBare(value, 1) # value THEN SubBare(value, 1)
    ELSE SubLongToken(SubVendorKey(value, 1), 1)

\* redact_text: the two substitutions, then every SENSITIVE_VALUE_PATTERNS
\* entry in turn (the ghp_ and xox patterns match no text of the model)
redact_text(value) ==
    SubLongToken(SubVendorKey(SubBare(SubQuoted(value, 1), 1), 1), 1)

(***************************************************************************)
(* JSON values: a string, a number, a list, or an object kept as the list  *)
(* of its <<key, value>> pairs in insertion order.  A key is a sequence of *)
(* units.                                                                  *)
(***************************************************************************)
Str(s) == [str |-> s]
Num(n) == [num |-> n]
List(l) == [list |-> l]
Map(m) == [map |-> m]

IsStr(v) == DOMAIN v = {"str"}
IsNum(v) == DOMAIN v = {"num"}
IsList(v) == DOMAIN v = {"list"}
IsMap(v) == DOMAIN v = {"map"}

\* the key words SENSITIVE_KEY_RE finds in the keys of the model
KeyKeywords == {"token", "Secret", "api_key", "API_KEY", "pat", "authorization"}

\* SENSITIVE_KEY_RE.search(key)
SensitiveKey(key) == \E i \in 1..Len(key) : key[i] \in KeyKeywords

\* redact_value, mutated: only strings are tested against the key above them
RECURSIVE redact_value_strings_only(_, _)
redact_value_strings_only(value, parent_key) ==
    IF IsMap(value)
    THEN Map([i \in 1..Len(value.map) |->
                <<value.map[i][1],
                  redact_value_strings_only(value.map[i][2], value.map[i][1])>>])
    ELSE IF IsList(value)
    THEN List([i \in 1..Len(value.list) |->
                 redact_value_strings_only(value.list[i], parent_key)])
    ELSE IF IsStr(value)
    THEN IF SensitiveKey(parent_key) THEN Str(<<Marker>>)
         ELSE Str(redact_text(value.str))
    ELSE value

RECURSIVE redact_value(_, _)
redact_value(value, parent_key) ==
    IF IsMap(value)
    THEN Map([i \in 1..Len(value.map) |->
                IF SensitiveKey(value.map[i][1])
                THEN <<value.map[i][1], Str(<<Marker>>)>>
                ELSE <<value.map[i][1],
                       redact_value(value.map[i][2], value.map[i][1])>>])
    ELSE IF IsList(value)
    THEN List([i \in 1..Len(value.list) |-> redact_value(value.list[i], parent_key)])
    ELSE IF IsStr(value)
    THEN IF SensitiveKey(parent_key) THEN Str(<<Marker>>)
         ELSE Str(redact_text(value.str))
    ELSE value

(***************************************************************************)
(* Python dict, kept as the list of its <<key, value>> pairs in insertion  *)
(* order.                                                                  *)
(***************************************************************************)
DictKeys(d) == [i \in 1..Len(d) |-> d[i][1]]
DictValues(d) == [i \in 1..Len(d) |-> d[i][2]]
DictHas(d, k) == \E i \in 1..Len(d) : d[i][1] = k
DictGet(d, k) == d[CHOOSE i \in 1..Len(d) : d[i][1] = k][2]

\* d[k] = v
DictSet(d, k, v) ==
    IF DictHas(d, k)
    THEN [i \in 1..Len(d) |-> IF d[i][1] = k THEN <<k, v>> ELSE d[i]]
    ELSE Append(d, <<k, v>>)

\* del d[k]
DictDel(d, k) == SelectSeq(d, LAMBDA kv : kv[1] # k)

\* {name.lower(): name for name in names}
RECURSIVE LowerLookup(_)
LowerLookup(names) ==
    IF names = <<>> THEN <<>>
    ELSE LET front == SubSeq(names, 1, Len(names) - 1)
             name == names[Len(names)]
         IN DictSet(LowerLookup(front), Lower(name), name)

(***************************************************************************)
(* Identity of an item (slugify, item_id).                                 *)
(***************************************************************************)
SlugChars == Range(LowerLetters) \cup Range(Digits) \cup {".", "_", "-"}

\* re.sub(r"[^a-z0-9._-]+", "-", value): every maximal run of other
\* characters becomes one "-"
RECURSIVE SubNonSlug(_)
SubNonSlug(value) ==
    IF value = <<>> THEN <<>>
    ELSE IF Head(value) \in SlugChars THEN <<Head(value)>> \o SubNonSlug(Tail(value))
    ELSE IF Len(value) > 1 /\ value[2] \notin SlugChars THEN SubNonSlug(Tail(value))
    ELSE <<"-">> \o SubNonSlug(Tail(value))

slugify(value) == StripChar(SubNonSlug(Lower(value)), "-")

\* fingerprint[:8]
FingerprintPrefix == 8

\* item_id, mutated: the fingerprint of a skill is left out
item_id_without_fingerprint(category, name, fingerprint) ==
    <<category, ":">> \o slugify(name)

\* the id is the text category ":" slug [":" fingerprint prefix]; the category
\* is kept as one unit, the rest character by character
item_id(category, name, fingerprint) ==
    LET base == <<category, ":">> \o slugify(name) IN
    IF category = "skill" /\ fingerprint # <<>>
    THEN base \o <<":">>
         \o SubSeq(fingerprint, 1,
                   IF Len(fingerprint) < FingerprintPrefix THEN Len(fingerprint)
                   ELSE FingerprintPrefix)
    ELSE base

(***************************************************************************)
(* Saved-state tracker (default_state, compute_application_selection,      *)
(* update_saved_app_state).  Every reading of the clock gives the same     *)
(* opaque time stamp; the program never compares time stamps.              *)
(***************************************************************************)
Now == "now"
Never == ""

\* default_state()
EmptyState == [saved_applications |-> <<>>, published_profiles |-> <<>>,
               last_exported_at |-> Never]

\* the names of one lookup whose lower-cased key is, or is not, in another
PickNames(lookup, other, present) ==
    DictValues(SelectSeq(lookup, LAMBDA kv : DictHas(other, kv[1]) = present))

\* compute_application_selection, mutated: every detected application is a
\* new candidate
compute_application_selection_all_new(detected_apps, state) ==
    LET saved_names == SortedStrs(DictKeys(state.saved_applications))
        detected_set == LowerLookup(detected_apps)
        saved_set == LowerLookup(saved_names)
    IN [saved_installed |-> SortedStrs(PickNames(detected_set, saved_set, TRUE)),
        saved_missing |-> SortedStrs(PickNames(saved_set, detected_set, FALSE)),
        new_candidates |-> SortedStrs(DictValues(detected_set))]

compute_application_selection(detected_apps, state) ==
    LET saved_names == SortedStrs(DictKeys(state.saved_applications))
        detected_set == LowerLookup(detected_apps)
        saved_set == LowerLookup(saved_names)
    IN [saved_installed |-> SortedStrs(PickNames(detected_set, saved_set, TRUE)),
        saved_missing |-> SortedStrs(PickNames(saved_set, detected_set, FALSE)),
        new_candidates |-> SortedStrs(PickNames(detected_set, saved_set, FALSE))]

NewEntry == [first_saved_at |-> Now, last_selected_at |-> Never,
             last_seen_state |-> "installed", priority |-> "optional"]

\* the body of the first loop: create or refresh the entry of one detected
\* application
RefreshEntry(saved, lower_name, original, selected_lookup, required_apps) ==
    LET entry == IF DictHas(saved, original) THEN DictGet(saved, original)
                 ELSE IF DictHas(saved, lower_name) THEN DictGet(saved, lower_name)
                 ELSE NewEntry
        selected == DictHas(selected_lookup, lower_name)
    IN [first_saved_at |-> IF selected /\ entry.first_saved_at = Never THEN Now
                           ELSE entry.first_saved_at,
        last_selected_at |-> IF selected THEN Now ELSE entry.last_selected_at,
        last_seen_state |-> "installed",
        priority |-> IF lower_name \in required_apps THEN "required"
                     ELSE IF entry.priority \notin {"required", "optional"}
                     THEN "optional" ELSE entry.priority]

RECURSIVE RefreshDetected(_, _, _, _)
RefreshDetected(saved, detected_lookup, selected_lookup, required_apps) ==
    IF detected_lookup = <<>> THEN saved
    ELSE LET lower_name == Head(detected_lookup)[1]
             original == Head(detected_lookup)[2]
             entry == RefreshEntry(saved, lower_name, original, selected_lookup,
                                   required_apps)
             \* an entry found under the lower-cased key is the object that
             \* is updated, so that key sees the update too
             updated == IF ~DictHas(saved, original) /\ DictHas(saved, lower_name)
                        THEN DictSet(saved, lower_name, entry) ELSE saved
         IN RefreshDetected(DictSet(updated, original, entry),
                            Tail(detected_lookup), selected_lookup, required_apps)

\* the second loop: every saved application that is not detected is missing
\* (entries written by this program are objects with a valid priority)
MarkMissing(saved, detected_lookup) ==
    [i \in 1..Len(saved) |->
        IF DictHas(detected_lookup, Lower(saved[i][1])) THEN saved[i]
        ELSE <<saved[i][1], [saved[i][2] EXCEPT !.last_seen_state = "missing"]>>]

\* update_saved_app_state: the new saved_applications
update_saved_app_state(saved, detected_apps, selected_apps, required_apps) ==
    LET detected_lookup == LowerLookup(detected_apps)
        selected_lookup == LowerLookup(selected_apps)
    IN MarkMissing(RefreshDetected(saved, detected_lookup, selected_lookup,
                                   required_apps),
                   detected_lookup)

\* parse_csv on the comma-separated parts of an argument: parts are stripped,
\* empty ones dropped, and of parts equal in lower case the first is kept
RECURSIVE parse_csv(_)
parse_csv(parts) ==
    IF parts = <<>> THEN <<>>
    ELSE LET front == parse_csv(SubSeq(parts, 1, Len(parts) - 1))
             token == Strip(parts[Len(parts)])
         IN IF token = <<>> \/ \E i \in 1..Len(front) : Lower(front[i]) = Lower(token)
            THEN front ELSE Append(front, token)

(***************************************************************************)
(* Catalog builder (normalize_install_data, normalize_verification,        *)
(* infer_os_support, manual_item, build_item_from_recommendation,          *)
(* detect_skills, detect_workflow_patterns, detect_model_preferences,      *)
(* merge_detected_context).                                                *)
(*                                                                         *)
(* A descriptor of the catalog is a record: install is a JSON object,      *)
(* has_install says whether the key is present, verify_type is the type of *)
(* its verification ("" when absent) and os_hints the operating systems    *)
(* its prerequisites name.                                                 *)
(***************************************************************************)
Categories == {"mcp", "cli-tool", "application", "plugin", "skill",
               "workflow-pattern", "model-preference"}

K_command == <<"command">>
K_api_key == <<"API_KEY">>
K_env == <<"env">>
K_type == <<"type">>
K_instructions == <<"instructions">>
K_config_snippet == <<"config_snippet">>
K_source == <<"source">>
K_scope == <<"scope">>
K_repo == <<"repo">>

\* value.get(key, default) on a JSON object
ValueGet(value, key, default) ==
    IF DictHas(value.map, key) THEN DictGet(value.map, key) ELSE default

\* bool(value) of a JSON value
Truthy(value) ==
    IF IsStr(value) THEN value.str # <<>>
    ELSE IF IsList(value) THEN value.list # <<>>
    ELSE IF IsMap(value) THEN value.map # <<>>
    ELSE value.num # 0

\* out[key] = str(install[key]) when the key is present
CopyKey(out, install, key) ==
    IF DictHas(install.map, key) THEN Append(out, <<key, DictGet(install.map, key)>>)
    ELSE out

\* the type, the stripped command and the config snippet when it is truthy
InstallBase(install, config_snippet) ==
    << <<K_type, ValueGet(install, K_type, Str(<<"manual">>))>>,
       <<K_command, Str(Strip(ValueGet(install, K_command, Str(<<>>)).str))>> >>
    \o (IF Truthy(config_snippet) THEN << <<K_config_snippet, config_snippet>> >>
        ELSE <<>>)

NormalizedInstall(install) ==
    Map(CopyKey(CopyKey(CopyKey(InstallBase(install,
                                            ValueGet(install, K_config_snippet, Str(<<>>))),
                                install, K_source),
                        install, K_scope),
                install, K_repo))

normalize_install_data(rec) ==
    NormalizedInstall(IF rec.has_install THEN rec.install ELSE Map(<<>>))

normalize_verification(rec) ==
    [type |-> IF rec.verify_type = "" THEN "manual" ELSE rec.verify_type,
     test_command |-> ""]

infer_os_support(rec, category, source_os) ==
    LET supported == SelectSeq(ALL_OSES, LAMBDA os : os \in rec.os_hints) IN
    IF supported # <<>> THEN SortedStrs(supported)
    ELSE IF category = "application" THEN <<source_os>>
    ELSE ALL_OSES

manual_item(name, category, source_os, note) ==
    [id |-> item_id(category, name, <<>>),
     name |-> name,
     category |-> category,
     install |-> Map(<< <<K_type, Str(<<"manual">>)>>, <<K_command, Str(<<>>)>>,
                        <<K_instructions,
                          Str(<<IF note = "" THEN "Manual setup required" ELSE note>>)>> >>),
     verification |-> [type |-> "manual", test_command |-> "Verify manually"],
     os_support |-> IF category = "application" THEN <<source_os>> ELSE ALL_OSES,
     manual_only |-> TRUE,
     priority |-> "optional",
     skill_hash |-> <<>>]

\* recommendations.get(name.lower()) is not None
HasRec(recs, name) == DictHas(recs, Lower(name))

\* the instructions added to a skill whose install is manual without command
WithSkillInstructions(category, install) ==
    IF /\ category = "skill"
       /\ ~Truthy(ValueGet(install, K_command, Str(<<>>)))
       /\ ValueGet(install, K_type, Str(<<>>)) = Str(<<"manual">>)
    THEN Map(DictSet(install.map, K_instructions,
                     Str(<<"Share this skill package separately or install manually">>)))
    ELSE install

\* the item built from a descriptor and its install data
ItemWithInstall(name, category, source_os, rec, forced, install, skill_hash) ==
    [id |-> item_id(category, name, skill_hash),
     name |-> name,
     category |-> category,
     install |-> redact_value(install, <<>>),
     verification |-> IF forced
                      THEN [type |-> "mcp_connect", test_command |-> "Use MCP"]
                      ELSE normalize_verification(rec),
     os_support |-> infer_os_support(rec, category, source_os),
     manual_only |-> (category = "application"
                      \/ ValueGet(install, K_type, Str(<<>>)) = Str(<<"manual">>)),
     priority |-> "optional",
     skill_hash |-> <<>>]

\* build_item_from_recommendation for a name that has a descriptor; forced
\* says whether the category is mcp and mcp_config is not None
ItemFromRec(name, category, source_os, rec, forced, mcp_config, skill_hash) ==
    ItemWithInstall(name, category, source_os, rec, forced,
                    WithSkillInstructions(category,
                        IF forced
                        THEN Map(<< <<K_type, Str(<<"mcp">>)>>, <<K_command, Str(<<>>)>>,
                                    <<K_config_snippet, mcp_config>> >>)
                        ELSE normalize_install_data(rec)),
                    skill_hash)

build_item_from_recommendation(name, category, source_os, recs, mcp_configs, skill_hash) ==
    IF ~HasRec(recs, name) THEN manual_item(name, category, source_os, "")
    ELSE ItemFromRec(name, category, source_os, DictGet(recs, Lower(name)),
                     category = "mcp" /\ DictHas(mcp_configs, Lower(name)),
                     IF DictHas(mcp_configs, Lower(name))
                     THEN DictGet(mcp_configs, Lower(name)) ELSE Map(<<>>),
                     skill_hash)

\* the key of the deduplication of detect_skills: name.lower() and hash
SkillKey(entry) == <<Lower(entry.name), entry.hash>>

\* the deduplication loop of detect_skills: entries of equal key are merged,
\* their scopes united
RECURSIVE DedupeSkills(_)
DedupeSkills(entries) ==
    IF entries = <<>> THEN <<>>
    ELSE LET front == DedupeSkills(SubSeq(entries, 1, Len(entries) - 1))
             entry == entries[Len(entries)]
         IN IF \E i \in 1..Len(front) : SkillKey(front[i]) = SkillKey(entry)
            THEN [i \in 1..Len(front) |->
                    IF SkillKey(front[i]) = SkillKey(entry)
                    THEN [front[i] EXCEPT !.scopes = @ \cup entry.scopes]
                    ELSE front[i]]
            ELSE Append(front, entry)

SkillLess(a, b) ==
    \/ StrLess(Lower(a.name), Lower(b.name))
    \/ Lower(a.name) = Lower(b.name) /\ StrLess(a.hash, b.hash)

RECURSIVE InsertSkill(_, _)
InsertSkill(x, sorted) ==
    IF sorted = <<>> THEN <<x>>
    ELSE IF SkillLess(x, Head(sorted)) THEN <<x>> \o sorted
    ELSE <<Head(sorted)>> \o InsertSkill(x, Tail(sorted))

RECURSIVE SortSkills(_)
SortSkills(list) ==
    IF list = <<>> THEN <<>>
    ELSE InsertSkill(list[Len(list)], SortSkills(SubSeq(list, 1, Len(list) - 1)))

\* detect_skills on the skill folders found under the roots of the scope, in
\* the order the roots are read
detect_skills(folders) == SortSkills(DedupeSkills(folders))

W_hooks == <<"p","r","e","-","c","o","m","m","i","t","-","h","o","o","k","s">>
W_tests == <<"t","e","s","t","-","f","i","r","s","t","-","d","e","b","u","g","g","i","n","g">>
W_agents == <<"a","g","e","n","t","s","-","m","d","-","s","t","r","u","c","t","u","r","e">>
W_context == <<"c","o","n","t","e","x","t","-","m","a","n","a","g","e","m","e","n","t">>
N_beads == <<"b","e","a","d","s">>

\* detect_workflow_patterns (the four names differ in lower case, so the
\* final deduplication keeps them all)
detect_workflow_patterns(repo, cli_tools) ==
    (IF repo.has_hooks THEN <<W_hooks>> ELSE <<>>)
    \o (IF repo.has_tests THEN <<W_tests>> ELSE <<>>)
    \o (IF repo.has_agent_docs THEN <<W_agents>> ELSE <<>>)
    \o (IF \E i \in 1..Len(cli_tools) : Lower(cli_tools[i]) = N_beads
        THEN <<W_context>> ELSE <<>>)

PrefixDefaultModel == <<"d","e","f","a","u","l","t","-","m","o","d","e","l",":">>
PrefixModel == <<"m","o","d","e","l",":">>

\* the names of the preferences before deduplication
PreferenceNames(default_model, models) ==
    (IF default_model # <<>> THEN <<PrefixDefaultModel \o default_model>> ELSE <<>>)
    \o [i \in 1..Len(models) |-> PrefixModel \o Strip(models[i])]

\* detect_model_preferences: the names of the preferences, unique in lower
\* case (the last spelling wins), sorted
detect_model_preferences(settings) ==
    SortedStrs(DictValues(LowerLookup(
        PreferenceNames(Strip(settings.default_model),
                        SelectSeq(settings.models, LAMBDA m : Strip(m) # <<>>)))))

CustomSkillInstall ==
    Map(<< <<K_type, Str(<<"manual">>)>>, <<K_command, Str(<<>>)>>,
           <<K_instructions,
             Str(<<"Custom skill detected. Share/install the skill directory manually.">>)>> >>)

\* what the loop over the detected skills adds to the item it builds
AsSkillItem(item, skill, has_rec) ==
    IF has_rec THEN [item EXCEPT !.skill_hash = skill.hash]
    ELSE [item EXCEPT !.skill_hash = skill.hash, !.manual_only = TRUE,
                      !.install = CustomSkillInstall]

\* the catalog entry of one detected skill
SkillItem(skill, source_os, recs) ==
    AsSkillItem(build_item_from_recommendation(skill.name, "skill", source_os, recs,
                                               <<>>, skill.hash),
                skill, HasRec(recs, skill.name))

\* the catalog entry of a detected name of a category
NamedItem(name, category, source_os, recs, mcp_configs) ==
    IF category = "workflow-pattern"
    THEN IF ~HasRec(recs, name)
         THEN manual_item(name, category, source_os, "Document and apply manually")
         ELSE [build_item_from_recommendation(name, category, source_os, recs,
                                              <<>>, <<>>)
               EXCEPT !.manual_only = TRUE]
    ELSE IF category = "model-preference"
    THEN manual_item(name, category, source_os, "Set model preference manually")
    ELSE build_item_from_recommendation(name, category, source_os, recs, mcp_configs,
                                        <<>>)

\* the catalog entries of the names of one category, in the order given
CatalogOf(names, category, source_os, recs, mcp_configs) ==
    [i \in 1..Len(names) |-> NamedItem(names[i], category, source_os, recs, mcp_configs)]

SkillItems(skills, source_os, recs) ==
    [i \in 1..Len(skills) |-> SkillItem(skills[i], source_os, recs)]

\* the names of all categories but skills, each list in the order of its loop
DetectedNames(machine) ==
    [mcps |-> SortedStrs(machine.mcps),
     cli_tools |-> SortedStrs(machine.cli_tools),
     applications |-> SortedStrs(machine.applications),
     plugins |-> SortedStrs(machine.plugins),
     workflow_patterns |-> detect_workflow_patterns(machine.repo, machine.cli_tools),
     model_preferences |-> detect_model_preferences(machine.settings)]

\* the key of the catalog that holds a category
CatalogKey(category) ==
    CASE category = "mcp" -> "mcps"
      [] category = "cli-tool" -> "cli_tools"
      [] category = "application" -> "applications"
      [] category = "plugin" -> "plugins"
      [] category = "skill" -> "skills"
      [] category = "workflow-pattern" -> "workflow_patterns"
      [] OTHER -> "model_preferences"

\* the catalog of the detected names and skills
CatalogFor(names, skills, source_os, recs, mcp_configs) ==
    [key \in {CatalogKey(c) : c \in Categories} |->
        IF key = "skills" THEN SkillItems(skills, source_os, recs)
        ELSE CatalogOf(names[key],
                       CHOOSE c \in Categories : CatalogKey(c) = key,
                       source_os, recs, mcp_configs)]

ItemNamesLower(items) == [i \in 1..Len(items) |-> Lower(items[i].name)]

\* what merge_detected_context returns for a catalog
MergedContext(source_os, catalog, applications, state) ==
    [os |-> source_os,
     catalog |-> catalog,
     application_selection |-> compute_application_selection(applications, state),
     installed_index |->
        [c \in Categories |-> ItemNamesLower(catalog[CatalogKey(c)])]]

\* the catalog built for a source operating system
MergedFor(source_os, machine, state) ==
    MergedContext(source_os,
                  CatalogFor(DetectedNames(machine), detect_skills(machine.skill_folders),
                             source_os, machine.recs, machine.mcp_configs),
                  machine.applications, state)

\* merge_detected_context on what the probes, the disk and the state file hold
merge_detected_context(machine, state, host) ==
    MergedFor(normalize_os(machine.os, host), machine, state)

(***************************************************************************)
(* Snapshot builder and the export and publish commands                    *)
(* (build_profile_snapshot, cmd_export, cmd_publish).                      *)
(***************************************************************************)
\* one of the two selection loops: a selected name that the lookup knows is
\* included under the spelling of the lookup
RECURSIVE IncludeKnown(_, _, _)
IncludeKnown(include_apps, selection, lookup) ==
    IF selection = <<>> THEN include_apps
    ELSE LET lower == Lower(Head(selection)) IN
         IncludeKnown(IF DictHas(lookup, lower)
                      THEN DictSet(include_apps, lower, DictGet(lookup, lower))
                      ELSE include_apps,
                      Tail(selection), lookup)

\* the warnings of one selection loop
IgnoredOf(selection, lookup, kind) ==
    LET unknown == SelectSeq(selection, LAMBDA app : ~DictHas(lookup, Lower(app))) IN
    [i \in 1..Len(unknown) |-> [warning |-> kind, app |-> unknown[i]]]

\* the catalog in the order of categories_in_order
CatalogInOrder(catalog) ==
    catalog.mcps \o catalog.cli_tools \o catalog.skills \o catalog.applications
    \o catalog.plugins \o catalog.workflow_patterns \o catalog.model_preferences

\* the body of the loop, mutated: only the name is matched against the tokens
SelectedCopyByName(item, required_tokens) ==
    [item EXCEPT !.priority = IF Lower(item.name) \in required_tokens
                              THEN "required" ELSE "optional",
                 !.install = redact_value(item.install, <<>>)]

\* the body of the loop over the catalog: priority from the required tokens,
\* install descriptor redacted
SelectedCopy(item, required_tokens) ==
    [item EXCEPT !.priority = IF Lower(item.name) \in required_tokens
                                 \/ Lower(item.id) \in required_tokens
                              THEN "required" ELSE "optional",
                 !.install = redact_value(item.install, <<>>)]

RECURSIVE CountByCategory(_)
CountByCategory(items) ==
    IF items = <<>> THEN <<>>
    ELSE LET by_category == CountByCategory(SubSeq(items, 1, Len(items) - 1))
             cat == items[Len(items)].category
         IN DictSet(by_category, cat,
                    (IF DictHas(by_category, cat) THEN DictGet(by_category, cat)
                     ELSE 0) + 1)

RECURSIVE MarkByCategory(_)
MarkByCategory(items) ==
    IF items = <<>> THEN <<>>
    ELSE DictSet(MarkByCategory(SubSeq(items, 1, Len(items) - 1)),
                 items[Len(items)].category, 1)

\* counts, mutated: by_category records a category instead of counting it
CountsMarkingCategories(selected_items) ==
    [total |-> Len(selected_items),
     required |-> Len(SelectSeq(selected_items, LAMBDA item : item.priority = "required")),
     optional |-> Len(SelectSeq(selected_items, LAMBDA item : item.priority # "required")),
     by_category |-> MarkByCategory(selected_items)]

\* the counts of a snapshot
Counts(selected_items) ==
    [total |-> Len(selected_items),
     required |-> Len(SelectSeq(selected_items, LAMBDA item : item.priority = "required")),
     optional |-> Len(SelectSeq(selected_items, LAMBDA item : item.priority # "required")),
     by_category |-> CountByCategory(selected_items)]

\* the selection loops, mutated: a selected name is included whether or not
\* its bucket knows it
IncludeAppsAcceptingUnknown(app_selection, selected_new, include_saved_apps, include_missing) ==
    IncludeKnown(
        IncludeKnown(IF include_saved_apps
                     THEN LowerLookup(app_selection.saved_installed) ELSE <<>>,
                     selected_new, LowerLookup(selected_new)),
        include_missing, LowerLookup(include_missing))

\* include_apps after the three selection loops
IncludeApps(app_selection, selected_new, include_saved_apps, include_missing) ==
    IncludeKnown(
        IncludeKnown(IF include_saved_apps
                     THEN LowerLookup(app_selection.saved_installed) ELSE <<>>,
                     selected_new, LowerLookup(app_selection.new_candidates)),
        include_missing, LowerLookup(app_selection.saved_missing))

\* the items the loop over the catalog keeps: applications that are not
\* included are left out
KeptItems(items, include_apps) ==
    SelectSeq(items, LAMBDA item : item.category = "application"
                                   => DictHas(include_apps, Lower(item.name)))

CopiesOf(kept, required_tokens) ==
    [i \in 1..Len(kept) |-> SelectedCopy(kept[i], required_tokens)]

SelectedItems(items, include_apps, required_tokens) ==
    CopiesOf(KeptItems(items, include_apps), required_tokens)

SnapshotOf(os, selected_items) ==
    [created_at |-> Now, os |-> os, items |-> selected_items,
     counts |-> Counts(selected_items)]

SelectionDebug(app_selection, included, normalized_new) ==
    [saved_installed |-> app_selection.saved_installed,
     saved_missing |-> app_selection.saved_missing,
     new_candidates |-> app_selection.new_candidates,
     selected_new_apps |->
        SortedStrs(SelectSeq(included, LAMBDA v : DictHas(normalized_new, Lower(v)))),
     included_apps |-> SortedStrs(included)]

\* the snapshot, the selection and the warnings for the applications included
BuiltWith(merged, include_apps, selected_new, include_missing, required_tokens, host) ==
    [snapshot |-> SnapshotOf(normalize_os(merged.os, host),
                             SelectedItems(CatalogInOrder(merged.catalog), include_apps,
                                           required_tokens)),
     selection_debug |->
        SelectionDebug(merged.application_selection, DictValues(include_apps),
                       LowerLookup(merged.application_selection.new_candidates)),
     warnings |->
        IgnoredOf(selected_new, LowerLookup(merged.application_selection.new_candidates),
                  "unknown new app")
        \o IgnoredOf(include_missing,
                     LowerLookup(merged.application_selection.saved_missing),
                     "unknown saved-missing app")]

build_profile_snapshot(merged, selected_new, include_saved_apps, include_missing, required_items, host) ==
    BuiltWith(merged,
              IncludeApps(merged.application_selection, selected_new,
                          include_saved_apps, include_missing),
              selected_new, include_missing,
              {Lower(required_items[i]) : i \in 1..Len(required_items)}, host)

\* token.startswith("application:") for a token given as the category unit,
\* the colon and the characters of the slug
StartsWithApplication(token) ==
    Len(token) >= 2 /\ token[1] = "application" /\ token[2] = ":"

\* the required tokens that name an application: an application id, or the
\* name of an included application
RequiredApps(required_items, included_apps) ==
    {Lower(token) : token \in
        {t \in Range(required_items) :
            \/ StartsWithApplication(Lower(t))
            \/ Lower(t) \in {Lower(name) : name \in Range(included_apps)}}}

ItemNames(items) == [i \in 1..Len(items) |-> items[i].name]

\* cmd_export, mutated: the state file is rewritten in a dry run too
ExportResultAlwaysSaving(state, merged, built, required_items, dry_run) ==
    [state |-> [state EXCEPT
                   !.saved_applications =
                       update_saved_app_state(@,
                           ItemNames(merged.catalog.applications),
                           built.selection_debug.included_apps,
                           RequiredApps(required_items,
                                        built.selection_debug.included_apps)),
                   !.last_exported_at = Now],
     output |-> [profile |-> built.snapshot,
                 application_selection |-> built.selection_debug,
                 warnings |-> built.warnings,
                 state_updated |-> ~dry_run]]

\* what cmd_export does with the snapshot it built
ExportResult(state, merged, built, required_items, dry_run) ==
    [state |-> IF dry_run THEN state
               ELSE [state EXCEPT
                       !.saved_applications =
                           update_saved_app_state(@,
                               ItemNames(merged.catalog.applications),
                               built.selection_debug.included_apps,
                               RequiredApps(required_items,
                                            built.selection_debug.included_apps)),
                       !.last_exported_at = Now],
     output |-> [profile |-> built.snapshot,
                 application_selection |-> built.selection_debug,
                 warnings |-> built.warnings,
                 state_updated |-> ~dry_run]]

ExportMerged(state, merged, args, required_items, host) ==
    ExportResult(state, merged,
                 build_profile_snapshot(merged, parse_csv(args.selected_new_apps),
                                        ~args.exclude_saved_apps,
                                        parse_csv(args.include_saved_missing_apps),
                                        required_items, host),
                 required_items, args.dry_run)

\* cmd_export: the state file it leaves and the document it prints
cmd_export(state, machine, args, host) ==
    ExportMerged(state, merge_detected_context(machine, state, host), args,
                 parse_csv(args.required_items), host)

\* load_profile_payload: the document itself, or what it holds under "profile"
load_profile_payload(payload) ==
    IF "profile" \in DOMAIN payload THEN payload.profile ELSE payload

\* the fallback identifier of cmd_publish: a digest of the profile document
DigestId(profile) == <<"sha256", profile>>

\* cmd_publish once the service has answered: the entry of the profile in the
\* state file
cmd_publish(state, profile, response) ==
    LET profile_id == IF response.id # <<>> THEN response.id ELSE DigestId(profile) IN
    [state EXCEPT !.published_profiles =
        DictSet(@, profile_id,
                [url |-> IF response.url # "" THEN <<response.url>>
                         ELSE <<"/p/", profile_id>>,
                 manage_token |-> response.manage_token,
                 status |-> "active",
                 created_at |-> Now])]

(***************************************************************************)
(* Import planner (plan_import_actions, cmd_plan_import).                  *)
(*                                                                         *)
(* An element of profile.items is a record: is_dict says whether the JSON  *)
(* value is an object; os_support.has_list is FALSE when the key is absent *)
(* or holds a non-list (both give ALL_OSES).  Categories and priorities    *)
(* are given in their canonical spelling.                                  *)
(***************************************************************************)
T_manual == <<"m","a","n","u","a","l">>
T_package == <<"p","a","c","k","a","g","e">>
T_mcp == <<"m","c","p">>

ManualCategories == {"application", "workflow-pattern", "model-preference"}

\* installed_names(category): the lower-cased names of the local index
installed_names(installed_index, category) ==
    IF category \in DOMAIN installed_index
    THEN {Lower(n) : n \in Range(installed_index[category])}
    ELSE {}

\* installed_by_category.get(category, set())
installed_by_category(installed_index, category) ==
    IF category \in Categories THEN installed_names(installed_index, category)
    ELSE {}

os_support_norm(item, host) ==
    LET os_support == IF item.os_support.has_list THEN item.os_support.values
                      ELSE ALL_OSES
    IN {normalize_os(v, host) : v \in Range(os_support)}

\* The checks of the loop body, mutated: the installed check comes first.
ClassifyInstalledFirst(item, installed_index, current_os, host) ==
    IF Lower(Strip(item.name)) \in installed_by_category(installed_index, item.category)
    THEN "already_installed"
    ELSE IF current_os \notin os_support_norm(item, host) THEN "unsupported"
    ELSE IF item.manual_only \/ Lower(item.install_type) = T_manual
            \/ item.category \in ManualCategories
    THEN IF item.priority = "required" THEN "manual_required" ELSE "manual_optional"
    ELSE IF item.priority = "required" THEN "prompt_required" ELSE "prompt_optional"

\* The checks of the loop body, first match wins: the bucket of one item.
Classify(item, installed_index, current_os, host) ==
    IF current_os \notin os_support_norm(item, host) THEN "unsupported"
    ELSE IF Lower(Strip(item.name)) \in installed_by_category(installed_index, item.category)
    THEN "already_installed"
    ELSE IF item.manual_only \/ Lower(item.install_type) = T_manual
            \/ item.category \in ManualCategories
    THEN IF item.priority = "required" THEN "manual_required" ELSE "manual_optional"
    ELSE IF item.priority = "required" THEN "prompt_required" ELSE "prompt_optional"

ActionOf(bucket) ==
    CASE bucket = "unsupported" -> "unsupported_os"
      [] bucket = "already_installed" -> "skip_already_installed"
      [] bucket \in {"manual_required", "manual_optional"} -> "manual_setup"
      [] OTHER -> "prompt_install"

ReasonOf(bucket, current_os) ==
    CASE bucket = "unsupported" -> <<"Not supported on", current_os>>
      [] bucket = "already_installed" -> <<"Already installed", <<>> >>
      [] bucket \in {"manual_required", "manual_optional"} -> <<"Manual setup required", <<>> >>
      [] OTHER -> <<"Ready to install", <<>> >>

BucketNames == {"unsupported", "already_installed", "manual_required",
                "manual_optional", "prompt_required", "prompt_optional"}

EmptyBuckets == [b \in BucketNames |-> <<>>]

\* The for-loop over items: non-objects are skipped, every object is
\* annotated and appended to the bucket its checks select.
RECURSIVE PlanLoop(_, _, _, _, _)
PlanLoop(items, installed_index, current_os, host, buckets) ==
    IF items = <<>> THEN buckets
    ELSE LET raw_item == Head(items) IN
         IF ~raw_item.is_dict
         THEN PlanLoop(Tail(items), installed_index, current_os, host, buckets)
         ELSE LET b == Classify(raw_item, installed_index, current_os, host)
                  item == [item |-> raw_item, action |-> ActionOf(b),
                           reason |-> ReasonOf(b, current_os)]
              IN PlanLoop(Tail(items), installed_index, current_os, host,
                          [buckets EXCEPT ![b] = Append(@, item)])

\* ordered_candidates, mutated: manual items are surfaced first.
OrderedManualFirst(buckets) ==
    buckets["manual_required"] \o buckets["manual_optional"]
    \o buckets["prompt_required"] \o buckets["prompt_optional"]

\* ordered = prompt_required + prompt_optional + manual_required + manual_optional
Ordered(buckets) ==
    buckets["prompt_required"] \o buckets["prompt_optional"]
    \o buckets["manual_required"] \o buckets["manual_optional"]

plan_import_actions(items, installed_index, current_os, host) ==
    LET buckets == PlanLoop(items, installed_index, current_os, host, EmptyBuckets) IN
    [current_os |-> current_os,
     summary |-> [total_items |-> Len(items),
                  prompt_required |-> Len(buckets["prompt_required"]),
                  prompt_optional |-> Len(buckets["prompt_optional"]),
                  manual_required |-> Len(buckets["manual_required"]),
                  manual_optional |-> Len(buckets["manual_optional"]),
                  already_installed |-> Len(buckets["already_installed"]),
                  unsupported |-> Len(buckets["unsupported"])],
     buckets |-> buckets,
     ordered_candidates |-> Ordered(buckets)]

(***************************************************************************)
(* Inputs of plan-import.                                                  *)
(***************************************************************************)
N_Fzf == <<"F","z","f">>
N_fzf == <<"f","z","f">>
OS_Darwin == <<"D","a","r","w","i","n">>
OS_freebsd == <<"f","r","e","e","b","s","d">>

NoOsList == [has_list |-> FALSE, values |-> <<>>]
OsList(values) == [has_list |-> TRUE, values |-> values]

\* a JSON value in profile.items that is not an object
NonDictItem ==
    [is_dict |-> FALSE, name |-> <<>>, category |-> "", priority |-> "optional",
     os_support |-> NoOsList, manual_only |-> FALSE, install_type |-> T_manual]

PlanItemUniverse ==
    {NonDictItem} \cup
    [is_dict : {TRUE}, name : {N_Fzf}, category : {"cli-tool", "application"},
     priority : {"required", "optional"},
     os_support : {NoOsList, OsList(<<>>), OsList(<<OS_Darwin>>),
                   OsList(<<OS_freebsd>>)},
     manual_only : BOOLEAN, install_type : {T_package}]
    \cup
    [is_dict : {TRUE}, name : {N_Fzf}, category : {"cli-tool"},
     priority : {"required", "optional"}, os_support : {NoOsList},
     manual_only : {FALSE}, install_type : {T_manual}]

EmptyIndex == [c \in Categories |-> <<>>]

\* installed_index as merge_detected_context builds it on the local machine
LocalIndexes ==
    {EmptyIndex,
     [EmptyIndex EXCEPT !["cli-tool"] = <<N_fzf>>],
     [EmptyIndex EXCEPT !["application"] = <<N_fzf>>]}

\* values of --current-os
CurrentOsArgs == {<<>>, OS_linux}

NoPlan == [stage |-> "idle"]

NoExport == [called |-> FALSE]

NoRedaction == [stage |-> "idle"]
NoCommand == [cmd |-> "none"]


\* the invocations of plan-import the model considers: the --current-os
\* argument, the profile document and the locally detected index
PlanInvocations ==
    [stage : {"invoked"}, raw_os : CurrentOsArgs,
     items : SeqsUpTo(PlanItemUniverse, MaxPlanItems),
     installed_index : LocalIndexes]

\* cmd_plan_import: normalise the OS argument, load the profile, detect the
\* local index, classify.
PlanImport ==
    /\ plan_out.stage = "invoked"
    /\ LET current_os == normalize_os(plan_out.raw_os, host_os) IN
       plan_out' = [stage |-> "returned", raw_os |-> plan_out.raw_os,
                    items |-> plan_out.items,
                    installed_index |-> plan_out.installed_index,
                    plan |-> plan_import_actions(plan_out.items,
                                                 plan_out.installed_index,
                                                 current_os, host_os)]
    /\ UNCHANGED <<host_os, state_file, export_out, posted, redact_io, cmd_out>>

InitPlan ==
    /\ host_os \in HostSystems
    /\ state_file = EmptyState
    /\ export_out = NoExport
    /\ plan_out \in PlanInvocations
    /\ posted = <<>>
    /\ redact_io = NoRedaction
    /\ cmd_out = NoCommand

NextPlan == PlanImport

SpecPlan == InitPlan /\ [][NextPlan]_vars

(***************************************************************************)
(* Properties of the import planner.                                       *)
(***************************************************************************)
Planned == plan_out.stage = "returned"

PlanBuckets == plan_out.plan.buckets

\* the buckets in which the i-th element of profile.items occurs
BucketsOf(i) ==
    {b \in BucketNames :
        \E j \in 1..Len(PlanBuckets[b]) : PlanBuckets[b][j].item = plan_out.items[i]}

BucketSizeSum ==
    plan_out.plan.summary.prompt_required + plan_out.plan.summary.prompt_optional
    + plan_out.plan.summary.manual_required + plan_out.plan.summary.manual_optional
    + plan_out.plan.summary.already_installed + plan_out.plan.summary.unsupported

\* the recognised spellings of an operating system and what each stands for
CanonOs(v) ==
    LET value == Lower(Strip(v)) IN
    IF value \in {OS_darwin, <<"m","a","c">>, OS_macos, <<"o","s","x">>} THEN OS_macos
    ELSE IF value = OS_linux THEN OS_linux
    ELSE IF value \in {OS_windows, <<"w","i","n","3","2">>,
                       <<"c","y","g","w","i","n">>, <<"m","s","y","s">>} THEN OS_windows
    ELSE <<>>

\* the local OS is a member of item.os_support (an absent list means all)
OsListed(item, os) ==
    \/ ~item.os_support.has_list
    \/ \E v \in Range(item.os_support.values) : CanonOs(v) = os

AllOsRecognised(item) ==
    \A v \in Range(item.os_support.values) : CanonOs(v) # <<>>

NameInstalled(item) ==
    /\ item.category \in DOMAIN plan_out.installed_index
    /\ \E n \in Range(plan_out.installed_index[item.category]) :
          Lower(n) = Lower(item.name)

LocalOs == plan_out.plan.current_os

\* C1: every element of profile.items appears in exactly one of the six
\* buckets, so the six bucket sizes sum to summary.total_items.
C1_Partition ==
    Planned =>
        /\ \A i \in 1..Len(plan_out.items) : Cardinality(BucketsOf(i)) = 1
        /\ BucketSizeSum = plan_out.plan.summary.total_items

CandidateRank(c) ==
    CASE c.action = "prompt_install" /\ c.item.priority = "required" -> 1
      [] c.action = "prompt_install" /\ c.item.priority # "required" -> 2
      [] c.action = "manual_setup" /\ c.item.priority = "required" -> 3
      [] c.action = "manual_setup" /\ c.item.priority # "required" -> 4
      [] OTHER -> 0

\* C3: ordered_candidates holds exactly the prompt_required, prompt_optional,
\* manual_required and manual_optional items in that order, and no
\* already_installed or unsupported item.
C3_OrderedCandidates ==
    Planned =>
        LET ordered == plan_out.plan.ordered_candidates IN
        /\ \A i, j \in 1..Len(ordered) :
              i < j => CandidateRank(ordered[i]) <= CandidateRank(ordered[j])
        /\ \A i \in 1..Len(ordered) : CandidateRank(ordered[i]) # 0
        /\ \A r \in 1..4 :
              LET b == <<"prompt_required", "prompt_optional",
                         "manual_required", "manual_optional">>[r] IN
              SelectSeq(ordered, LAMBDA c : CandidateRank(c) = r) = PlanBuckets[b]

\* C3 witness: a plan whose candidates are a manual item listed in the
\* profile before a prompt item, beside a skipped item.
C3_Witness ==
    /\ Planned
    /\ Len(plan_out.items) >= 2
    /\ BucketsOf(1) \subseteq {"manual_required", "manual_optional"}
    /\ BucketsOf(1) # {}
    /\ BucketsOf(2) \subseteq {"prompt_required", "prompt_optional"}
    /\ BucketsOf(2) # {}
    /\ Len(plan_out.plan.ordered_candidates) = 2

\* C4: an item is in the unsupported bucket, with a reason naming the local
\* OS, if and only if the local OS is not a member of item.os_support; an
\* unrecognised name or an empty list never supports the local OS.
C4_UnsupportedIff ==
    Planned =>
        \A i \in 1..Len(plan_out.items) :
            LET item == plan_out.items[i] IN
            item.is_dict =>
                /\ ("unsupported" \in BucketsOf(i)) <=> ~OsListed(item, LocalOs)
                /\ \A j \in 1..Len(PlanBuckets["unsupported"]) :
                      PlanBuckets["unsupported"][j].reason[2] = LocalOs

(***************************************************************************)
(* Redaction on its own: the values handed to redact_value.                *)
(***************************************************************************)
\* the units texts are enumerated over
InputUnits == {"token", ":", "=", " ", Quote, "x", SkKey, Long30, Marker}

Texts ==
    {t \in SeqsUpTo(InputUnits, MaxTextLen) :
        Cardinality({i \in 1..Len(t) : t[i] = SkKey}) <= 1}

LeafTexts == {<<"x", "x">>, <<SkKey>>, <<"Secret", ":", "x">>, <<Marker>>}

DescriptorKeys == {K_command, K_api_key, K_env}

Scalars == {Str(t) : t \in LeafTexts} \cup {Num(1)}

Lists(V) == {List(l) : l \in SeqsUpTo(V, MaxListLen) \ {<<>>}}

\* objects of one or two entries with distinct keys
Maps(V1, V2) ==
    {Map(<<<<k, v>>>>) : k \in DescriptorKeys, v \in V1}
    \cup {Map(<< <<ks[1], v1>>, <<ks[2], v2>> >>) :
            ks \in {p \in DescriptorKeys \X DescriptorKeys : p[1] # p[2]},
            v1 \in V1, v2 \in V2}

Nested == Scalars \cup Lists(Scalars) \cup Maps(Scalars, Scalars)

\* install descriptors: objects holding scalars, lists and objects
Descriptors == Maps(Nested, Scalars)

RedactInvocations ==
    [stage : {"invoked"}, value : {Str(t) : t \in Texts} \cup Descriptors]

\* one call redact_value(value)
Redact ==
    /\ redact_io.stage = "invoked"
    /\ redact_io' = [stage |-> "returned", value |-> redact_io.value,
                     out |-> redact_value(redact_io.value, <<>>)]
    /\ UNCHANGED <<host_os, state_file, export_out, plan_out, posted, cmd_out>>

InitRedact ==
    /\ host_os = OS_linux
    /\ state_file = EmptyState
    /\ export_out = NoExport
    /\ plan_out = NoPlan
    /\ posted = <<>>
    /\ redact_io \in RedactInvocations
    /\ cmd_out = NoCommand

NextRedact == Redact

SpecRedact == InitRedact /\ [][NextRedact]_vars

(***************************************************************************)
(* Properties of the redactor.                                             *)
(***************************************************************************)
Redacted == redact_io.stage = "returned"

\* the strings held anywhere in a value
RECURSIVE StringsOf(_)
StringsOf(v) ==
    IF IsStr(v) THEN {v.str}
    ELSE IF IsList(v) THEN UNION {StringsOf(v.list[i]) : i \in 1..Len(v.list)}
    ELSE IF IsMap(v) THEN UNION {StringsOf(v.map[i][2]) : i \in 1..Len(v.map)}
    ELSE {}

\* the strings held at or beneath a sensitive key
RECURSIVE SecretsOf(_)
SecretsOf(v) ==
    IF IsList(v) THEN UNION {SecretsOf(v.list[i]) : i \in 1..Len(v.list)}
    ELSE IF IsMap(v)
    THEN UNION {IF SensitiveKey(v.map[i][1]) THEN StringsOf(v.map[i][2])
                ELSE SecretsOf(v.map[i][2]) : i \in 1..Len(v.map)}
    ELSE {}

\* t holds s as a substring
Contains(txt, sub) ==
    \E i \in 1..(Len(txt) - Len(sub) + 1) : SubSeq(txt, i, i + Len(sub) - 1) = sub

\* same keys and nesting, every value of a sensitive key replaced by the marker
RECURSIVE KeyedRedactionOf(_, _)
KeyedRedactionOf(in, out) ==
    IF IsMap(in)
    THEN /\ IsMap(out) /\ Len(out.map) = Len(in.map)
         /\ \A i \in 1..Len(in.map) :
               /\ out.map[i][1] = in.map[i][1]
               /\ IF SensitiveKey(in.map[i][1])
                  THEN out.map[i][2] = Str(<<Marker>>)
                  ELSE KeyedRedactionOf(in.map[i][2], out.map[i][2])
    ELSE IF IsList(in)
    THEN /\ IsList(out) /\ Len(out.list) = Len(in.list)
         /\ \A i \in 1..Len(in.list) : KeyedRedactionOf(in.list[i], out.list[i])
    ELSE IF IsStr(in) THEN IsStr(out)
    ELSE out = in

\* C7: redaction is idempotent: redacting a redacted value changes nothing.
C7_Idempotent ==
    Redacted => redact_value(redact_io.out, <<>>) = redact_io.out

\* C7 witness: a text with a quoted secret after a key word was redacted.
C7_Witness ==
    /\ Redacted
    /\ redact_io.value = Str(<<"token", ":", Quote, "x", Quote>>)
    /\ redact_io.out = Str(<<"token", "=", Marker>>)

\* C8 as stated: the value of every sensitive key is replaced by the marker,
\* keys and nesting are kept, and the original secret appears nowhere in the
\* redacted descriptor.
C8_SecretNowhere ==
    (Redacted /\ IsMap(redact_io.value)) =>
        /\ KeyedRedactionOf(redact_io.value, redact_io.out)
        /\ \A secret \in SecretsOf(redact_io.value) \ {<<Marker>>} :
              \A txt \in StringsOf(redact_io.out) : ~Contains(txt, secret)

\* C8 amended: the value of every sensitive key is replaced wholesale by the
\* marker and the result has the same keys and nesting outside the replaced
\* values.
C8_KeyedRedaction ==
    (Redacted /\ IsMap(redact_io.value)) =>
        KeyedRedactionOf(redact_io.value, redact_io.out)

\* C8 witness: a descriptor with an object under a sensitive key was redacted.
C8_Witness ==
    /\ Redacted
    /\ IsMap(redact_io.value)
    /\ \E i \in 1..Len(redact_io.value.map) :
          /\ SensitiveKey(redact_io.value.map[i][1])
          /\ IsMap(redact_io.value.map[i][2])
          /\ redact_io.out.map[i][2] = Str(<<Marker>>)


(***************************************************************************)
(* Specification of the export command over the saved applications: every  *)
(* export detects some applications, takes its arguments and, unless it is *)
(* a dry run, rewrites the state file.                                     *)
(***************************************************************************)
A_Zed == <<"Z","e","d">>
A_zed == <<"z","e","d">>
Id_zed == <<"application", ":", "z","e","d">>

NoRepo == [has_hooks |-> FALSE, has_tests |-> FALSE, has_agent_docs |-> FALSE]
NoSettings == [default_model |-> <<>>, models |-> <<>>]

\* a machine on which only applications are detected
MachineWithApps(apps, host) ==
    [os |-> host, mcps |-> <<>>, cli_tools |-> <<>>, applications |-> apps,
     plugins |-> <<>>, skill_folders |-> <<>>, repo |-> NoRepo,
     settings |-> NoSettings, recs |-> <<>>, mcp_configs |-> <<>>]

DetectedApps == {<<>>, <<A_Zed>>, <<A_Zed, A_zed>>}

\* the values an argument of export takes
ArgValues ==
    [selected_new_apps |-> {<<>>, <<A_zed>>},
     exclude_saved_apps |-> BOOLEAN,
     include_saved_missing_apps |-> {<<>>, <<A_Zed>>},
     required_items |-> {<<>>, <<A_Zed>>, <<Id_zed>>},
     dry_run |-> BOOLEAN]

\* the command line without arguments
DefaultArgs ==
    [selected_new_apps |-> <<>>, exclude_saved_apps |-> FALSE,
     include_saved_missing_apps |-> <<>>, required_items |-> <<>>, dry_run |-> FALSE]

WithOneArg(args) ==
    UNION {{[args EXCEPT ![f] = v] : v \in ArgValues[f]} : f \in DOMAIN ArgValues}

\* the command lines that give one or two arguments, or none
ExportArgs == UNION {WithOneArg(args) : args \in WithOneArg(DefaultArgs)}

Export ==
    \E apps \in DetectedApps, args \in ExportArgs :
        LET result == cmd_export(state_file, MachineWithApps(apps, host_os), args,
                                 host_os)
        IN /\ state_file' = result.state
           /\ export_out' = [called |-> TRUE, detected |-> apps, args |-> args,
                             saved_before |-> DictKeys(state_file.saved_applications),
                             output |-> result.output]
           /\ UNCHANGED <<host_os, plan_out, posted, redact_io, cmd_out>>

InitExport ==
    /\ host_os = OS_linux
    /\ state_file = EmptyState
    /\ export_out = NoExport
    /\ plan_out = NoPlan
    /\ posted = <<>>
    /\ redact_io = NoRedaction
    /\ cmd_out = NoCommand

NextExport == Export

SpecExport == InitExport /\ [][NextExport]_vars

\* C5 (as stated): the three lists are pairwise disjoint, their union is the
\* set of saved and detected names, and every detected name is in exactly one
\* of saved_installed and new_candidates, exactly once.
Exported == export_out.called
Selection == export_out.output.application_selection
AppearsIn(list, name) == Cardinality({i \in 1..Len(list) : list[i] = name})
SavedOrDetected == Range(export_out.saved_before) \cup Range(export_out.detected)

C5_PartitionByName ==
    Exported =>
        /\ Range(Selection.saved_installed) \cap Range(Selection.saved_missing) = {}
        /\ Range(Selection.saved_installed) \cap Range(Selection.new_candidates) = {}
        /\ Range(Selection.saved_missing) \cap Range(Selection.new_candidates) = {}
        /\ Range(Selection.saved_installed) \cup Range(Selection.saved_missing)
              \cup Range(Selection.new_candidates) = SavedOrDetected
        /\ \A name \in Range(export_out.detected) :
              AppearsIn(Selection.saved_installed, name)
                 + AppearsIn(Selection.new_candidates, name) = 1

\* C5 (amended): with names identified up to letter case, the three lists are
\* pairwise disjoint, together hold exactly the saved and the detected
\* applications, and every detected application is in exactly one of
\* saved_installed and new_candidates, exactly once.
LowerSet(names) == {Lower(names[i]) : i \in 1..Len(names)}
AppearsInLower(list, name) ==
    Cardinality({i \in 1..Len(list) : Lower(list[i]) = Lower(name)})

C5_PartitionByLowerName ==
    Exported =>
        /\ LowerSet(Selection.saved_installed) \cap LowerSet(Selection.saved_missing) = {}
        /\ LowerSet(Selection.saved_installed) \cap LowerSet(Selection.new_candidates) = {}
        /\ LowerSet(Selection.saved_missing) \cap LowerSet(Selection.new_candidates) = {}
        /\ LowerSet(Selection.saved_installed) \cup LowerSet(Selection.saved_missing)
              \cup LowerSet(Selection.new_candidates)
           = LowerSet(export_out.saved_before) \cup LowerSet(export_out.detected)
        /\ \A name \in Range(export_out.detected) :
              AppearsInLower(Selection.saved_installed, name)
                 + AppearsInLower(Selection.new_candidates, name) = 1

\* an export that detects two spellings of an application saved under one of
\* them
C5_Witness ==
    /\ Exported
    /\ export_out.detected = <<A_Zed, A_zed>>
    /\ export_out.saved_before = <<A_Zed>>
    /\ Selection.saved_installed = <<A_zed>>
    /\ Selection.new_candidates = <<>>


\* an export that rewrote the state file, so that update_saved_app_state ran
Updated == Exported /\ export_out.output.state_updated
SavedNow == state_file.saved_applications

\* C11: after every update_saved_app_state, a saved application is installed
\* when its lower-cased name is in the lower-cased detection set and missing
\* otherwise, and every key saved before is still saved.
C11_SeenState ==
    Updated =>
        /\ \A i \in 1..Len(SavedNow) :
              SavedNow[i][2].last_seen_state
                 = IF Lower(SavedNow[i][1]) \in LowerSet(export_out.detected)
                   THEN "installed" ELSE "missing"
        /\ Range(export_out.saved_before) \subseteq Range(DictKeys(SavedNow))

\* the required_apps that the last export handed to update_saved_app_state
RequiredOfExport(out) ==
    RequiredApps(parse_csv(out.args.required_items),
                 out.output.application_selection.included_apps)

PriorityOf(saved, key) == DictGet(saved, key).priority

\* C13: in every update, the saved entry of a detected application is required
\* when the application is in required_apps and otherwise keeps its priority;
\* no entry goes from required back to optional, and every priority is
\* required or optional.
C13_Priority ==
    [][(export_out'.called /\ export_out'.output.state_updated) =>
          /\ \A i \in 1..Len(SavedNow') :
                SavedNow'[i][2].priority \in {"required", "optional"}
          /\ \A name \in Range(export_out'.detected) :
                DictHas(SavedNow', name) =>
                    IF Lower(name) \in RequiredOfExport(export_out')
                    THEN PriorityOf(SavedNow', name) = "required"
                    ELSE DictHas(SavedNow, name) =>
                            PriorityOf(SavedNow', name) = PriorityOf(SavedNow, name)
          /\ \A i \in 1..Len(SavedNow) :
                SavedNow[i][2].priority = "required" =>
                    /\ DictHas(SavedNow', SavedNow[i][1])
                    /\ PriorityOf(SavedNow', SavedNow[i][1]) = "required"]_vars

\* C14: after an export that rewrote the state file, an application that was
\* detected, was not saved before and was not included has no saved entry.
C14_CreatedWhenIncluded ==
    Updated =>
        \A name \in Range(export_out.detected) :
            (/\ Lower(name) \notin LowerSet(export_out.saved_before)
             /\ Lower(name) \notin LowerSet(Selection.included_apps))
            => Lower(name) \notin LowerSet(DictKeys(SavedNow))

\* C15: no two keys of saved_applications are equal in lower case.
C15_KeysDistinctInLowerCase ==
    \A i, j \in 1..Len(SavedNow) :
        Lower(SavedNow[i][1]) = Lower(SavedNow[j][1]) => i = j

\* the names the caller selected, and those of them their bucket does not know
SelectedNew == parse_csv(export_out.args.selected_new_apps)
AddedBack == parse_csv(export_out.args.include_saved_missing_apps)
UnknownNew == SelectSeq(SelectedNew, LAMBDA app : Lower(app) \notin LowerSet(Selection.new_candidates))
UnknownAddBack == SelectSeq(AddedBack, LAMBDA app : Lower(app) \notin LowerSet(Selection.saved_missing))
WarningsFor(unknown, kind) == [i \in 1..Len(unknown) |-> [warning |-> kind, app |-> unknown[i]]]
ApplicationItems == SelectSeq(export_out.output.profile.items, LAMBDA item : item.category = "application")

\* one warning for every unknown name, new-app selections first
OneWarningEach ==
    export_out.output.warnings
        = WarningsFor(UnknownNew, "unknown new app")
          \o WarningsFor(UnknownAddBack, "unknown saved-missing app")

\* C16, as stated: an unknown new-app or add-back name produces one warning
\* and is neither in included_apps nor the name of a snapshot item.
C16_UnknownExcluded ==
    Exported =>
        /\ OneWarningEach
        /\ \A app \in Range(UnknownNew) \cup Range(UnknownAddBack) :
              /\ app \notin Range(Selection.included_apps)
              /\ \A i \in 1..Len(ApplicationItems) : ApplicationItems[i].name # app

\* the applications (in lower case) that the selections the buckets know, and
\* the saved installed ones when they are included, put into the snapshot
KnownSelections ==
    (IF export_out.args.exclude_saved_apps THEN {} ELSE LowerSet(Selection.saved_installed))
    \cup (LowerSet(SelectedNew) \cap LowerSet(Selection.new_candidates))
    \cup (LowerSet(AddedBack) \cap LowerSet(Selection.saved_missing))

\* C16, amended: an unknown name produces one warning and contributes
\* nothing; the included applications are exactly the saved installed ones
\* (when included) and the selections their bucket knows, and every
\* application item of the snapshot is one of them.
C16_UnknownContributesNothing ==
    Exported =>
        /\ OneWarningEach
        /\ LowerSet(Selection.included_apps) = KnownSelections
        /\ \A i \in 1..Len(ApplicationItems) :
              Lower(ApplicationItems[i].name) \in KnownSelections

\* an export that ignored one selection and still included an application
C16_Witness ==
    /\ Exported
    /\ Len(export_out.output.warnings) = 1
    /\ Selection.included_apps # <<>>
    /\ ApplicationItems # <<>>

\* C18: in an export with include_saved_apps = false that asks for no
\* add-back, the application items of the snapshot are exactly the selected
\* new candidates, and included_apps lists exactly the names of those items.
C18_OnlySelected ==
    (Exported /\ export_out.args.exclude_saved_apps /\ AddedBack = <<>>) =>
        /\ LowerSet(Selection.included_apps)
              = LowerSet(SelectedNew) \cap LowerSet(Selection.new_candidates)
        /\ Range(ItemNames(ApplicationItems)) = Range(Selection.included_apps)

\* C19: for every name in included_apps the items of the snapshot hold an
\* application item with that name.
C19_IncludedHasItem ==
    Exported =>
        \A name \in Range(Selection.included_apps) :
            \E i \in 1..Len(ApplicationItems) : ApplicationItems[i].name = name

\* no two of the detected and saved names differ only in letter case
OneSpelling ==
    \A a, b \in Range(export_out.detected) \cup Range(DictKeys(SavedNow)) :
        Lower(a) = Lower(b) => a = b

\* C29: after an export that rewrote the state file (every application
\* under one spelling), every application item of the snapshot that is
\* required, by its name or by its id, has a saved entry with priority
\* required.
C29_RequiredInBoth ==
    (Updated /\ OneSpelling) =>
        \A i \in 1..Len(ApplicationItems) :
            (/\ ApplicationItems[i].priority = "required"
             /\ ApplicationItems[i].name \in Range(export_out.detected))
            => /\ DictHas(SavedNow, ApplicationItems[i].name)
               /\ PriorityOf(SavedNow, ApplicationItems[i].name) = "required"

\* C30: an export with --dry-run leaves the state file as it was, reports
\* state_updated = false and prints the snapshot that the same export
\* without --dry-run builds from the same state file and machine.
C30_DryRunFrame ==
    [][(export_out'.called /\ export_out'.args.dry_run) =>
          /\ state_file' = state_file
          /\ ~export_out'.output.state_updated
          /\ export_out'.output.profile
                = cmd_export(state_file, MachineWithApps(export_out'.detected, host_os),
                             [export_out'.args EXCEPT !.dry_run = FALSE],
                             host_os).output.profile]_vars

\* a dry run on a state file with saved applications that printed a snapshot
\* with an application
C30_Witness ==
    /\ Exported
    /\ export_out.args.dry_run
    /\ ~export_out.output.state_updated
    /\ SavedNow # <<>>
    /\ state_file.last_exported_at = Now
    /\ ApplicationItems # <<>>

(***************************************************************************)
(* Specification of one export on a fresh state file, over what the probes *)
(* detect: command-line tools, plug-ins, skill folders, MCP servers, the   *)
(* repository and the model settings.                                      *)
(***************************************************************************)
N_ctx == <<"c","t","x">>
P_a_b == <<"a"," ","b">>
P_a_dash_b == <<"a","-","b">>
S_lint == <<"l","i","n","t">>
Hash1 == <<"a","a","a","a","a","a","a","a","a","a">>
Hash2 == <<"b","b","b","b","b","b","b","b","b","b">>
M_o4 == <<"o","4">>

SkillFolder(name, hash, scope) == [name |-> name, hash |-> hash, scopes |-> {scope}]

\* the descriptors of the recommendation files
Rec_fzf == [has_install |-> TRUE,
            install |-> Map(<< <<K_type, Str(<<"package">>)>>,
                               <<K_command, Str(<<"brew install fzf">>)>> >>),
            verify_type |-> "command_exists", os_hints |-> {}]
Rec_ctx == [has_install |-> TRUE,
            install |-> Map(<< <<K_type, Str(<<"mcp">>)>>,
                               <<K_command, Str(<<"npx", " ", "--key", " ", SkKey>>)>> >>),
            verify_type |-> "", os_hints |-> {OS_macos}]
Rec_lint == [has_install |-> FALSE, install |-> Map(<<>>), verify_type |-> "",
             os_hints |-> {}]

RecFiles == {<<>>, << <<N_fzf, Rec_fzf>>, <<N_ctx, Rec_ctx>>, <<S_lint, Rec_lint>> >>}

\* the configuration found for an MCP server
Config_ctx == Map(<< <<K_command, Str(<<"npx">>)>>,
                     <<K_env, Map(<< <<K_api_key, Str(<<"x", "x">>)>> >>)>> >>)

Machines ==
    [os : {OS_Darwin},
     mcps : {<<>>, <<N_ctx>>},
     cli_tools : {<<>>, <<N_fzf>>, <<N_fzf, N_Fzf>>, <<N_beads>>},
     applications : {<<>>, <<A_Zed>>},
     plugins : {<<>>, <<P_a_b>>, <<P_a_dash_b, P_a_b>>},
     skill_folders : {<<>>,
                      <<SkillFolder(S_lint, Hash1, "global")>>,
                      <<SkillFolder(S_lint, Hash1, "global"),
                        SkillFolder(S_lint, Hash1, "project")>>,
                      <<SkillFolder(S_lint, Hash1, "global"),
                        SkillFolder(S_lint, Hash2, "project")>>},
     repo : {NoRepo, [NoRepo EXCEPT !.has_tests = TRUE]},
     settings : {NoSettings, [default_model |-> M_o4, models |-> <<M_o4>>]},
     recs : RecFiles,
     mcp_configs : {<<>>, << <<N_ctx, Config_ctx>> >>}]

Id_fzf == <<"cli-tool", ":", "f", "z", "f">>

CatalogArgs ==
    [selected_new_apps : {<<>>, <<A_zed>>},
     exclude_saved_apps : {FALSE},
     include_saved_missing_apps : {<<>>},
     required_items : {<<>>, <<N_Fzf>>, <<Id_fzf>>},
     dry_run : {FALSE}]

CatalogInvocations ==
    {[called |-> FALSE, machine |-> m, args |-> a] : m \in Machines, a \in CatalogArgs}

ExportCatalog ==
    /\ ~export_out.called
    /\ export_out # NoExport
    /\ LET result == cmd_export(state_file, export_out.machine, export_out.args, host_os)
       IN /\ state_file' = result.state
          /\ export_out' = [called |-> TRUE, machine |-> export_out.machine,
                            args |-> export_out.args, output |-> result.output]
    /\ UNCHANGED <<host_os, plan_out, posted, redact_io, cmd_out>>

InitCatalog ==
    /\ host_os = OS_darwin
    /\ state_file = EmptyState
    /\ export_out \in CatalogInvocations
    /\ plan_out = NoPlan
    /\ posted = <<>>
    /\ redact_io = NoRedaction
    /\ cmd_out = NoCommand

NextCatalog == ExportCatalog

SpecCatalog == InitCatalog /\ [][NextCatalog]_vars

Snapshot == export_out.output.profile

RECURSIVE SumValues(_)
SumValues(d) == IF d = <<>> THEN 0 ELSE d[1][2] + SumValues(Tail(d))

\* C6: in every snapshot, counts.total is the number of items,
\* counts.required + counts.optional is counts.total, and the values of
\* by_category sum to counts.total.
C6_Counts ==
    Exported =>
        /\ Snapshot.counts.total = Len(Snapshot.items)
        /\ Snapshot.counts.required + Snapshot.counts.optional = Snapshot.counts.total
        /\ SumValues(Snapshot.counts.by_category) = Snapshot.counts.total

\* a snapshot with a required item and two optional items of one category
C6_Witness ==
    /\ Exported
    /\ Snapshot.counts.required >= 1
    /\ Snapshot.counts.optional >= 2
    /\ \E i \in 1..Len(Snapshot.counts.by_category) :
          Snapshot.counts.by_category[i][2] >= 2

\* C10: in every snapshot the id values of the items are pairwise distinct.
C10_DistinctIds ==
    Exported =>
        \A i, j \in 1..Len(Snapshot.items) :
            Snapshot.items[i].id = Snapshot.items[j].id => i = j

\* the items of the other categories, without the two fields the snapshot
\* builder rewrites
NonApplication(items) == SelectSeq(items, LAMBDA item : item.category # "application")
AsDetected(items) == [i \in 1..Len(items) |-> [items[i] EXCEPT !.priority = "", !.install = Map(<<>>)]]

\* the catalog the export started from: the machine on a fresh state file
CatalogItems == CatalogInOrder(merge_detected_context(export_out.machine, EmptyState, host_os).catalog)
RequiredTokens == LowerSet(parse_csv(export_out.args.required_items))

\* C17: every snapshot holds every catalog item of every category other than
\* application, in catalog order, whatever applications were selected; an
\* item is required exactly when its name or its id, in lower case, is one of
\* the required tokens (compared in lower case), and optional otherwise.
C17_MachineFacts ==
    Exported =>
        /\ AsDetected(NonApplication(Snapshot.items)) = AsDetected(NonApplication(CatalogItems))
        /\ \A i \in 1..Len(Snapshot.items) :
              Snapshot.items[i].priority
                 = IF Lower(Snapshot.items[i].name) \in RequiredTokens
                      \/ Lower(Snapshot.items[i].id) \in RequiredTokens
                   THEN "required" ELSE "optional"

\* a snapshot of a machine with an application that was not selected, holding
\* an item that is required through its id and an optional one
C17_Witness ==
    /\ Exported
    /\ export_out.machine.applications # <<>>
    /\ export_out.args.selected_new_apps = <<>>
    /\ \E i, j \in 1..Len(Snapshot.items) :
          /\ Snapshot.items[i].priority = "required"
          /\ Lower(Snapshot.items[i].name) \notin RequiredTokens
          /\ Snapshot.items[j].priority = "optional"
          /\ Snapshot.items[j].category # "application"

\* the MCP configuration blocks found on the machine of the export
ConfigsFound == export_out.machine.mcp_configs

\* C28: the item of every detected MCP server that has a configuration
\* block has install type mcp, carries the redacted block as config_snippet
\* and has verification type mcp_connect, with or without a descriptor.
C28_ConfiguredMcp ==
    Exported =>
        \A i \in 1..Len(Snapshot.items) :
            (/\ Snapshot.items[i].category = "mcp"
             /\ DictHas(ConfigsFound, Lower(Snapshot.items[i].name)))
            => /\ ValueGet(Snapshot.items[i].install, K_type, Str(<<>>)) = Str(<<"mcp">>)
               /\ ValueGet(Snapshot.items[i].install, K_config_snippet, Str(<<>>))
                     = redact_value(DictGet(ConfigsFound, Lower(Snapshot.items[i].name)), <<>>)
               /\ Snapshot.items[i].verification.type = "mcp_connect"

(***************************************************************************)
(* Specification of the publish command: every publish reads a profile     *)
(* document, POSTs it to the hosting service and, when the service         *)
(* answers, records the profile in the state file.                         *)
(***************************************************************************)
ProfileItem(name, install) ==
    [id |-> item_id("cli-tool", name, <<>>), name |-> name, install |-> install]

ProfileDoc(items) == [items |-> items]

ProfileDocs ==
    {ProfileDoc(<<>>),
     ProfileDoc(<<ProfileItem(N_fzf, Rec_fzf.install)>>),
     ProfileDoc(<<ProfileItem(N_ctx, redact_value(Config_ctx, <<>>))>>),
     ProfileDoc(<<ProfileItem(N_fzf, Rec_fzf.install), ProfileItem(N_ctx, Config_ctx)>>),
     ProfileDoc(<<ProfileItem(N_ctx, Rec_ctx.install)>>)}

\* what --input-file or the standard input holds: a profile document, or the
\* output of an export, which holds it under "profile"
ProfilePayloads ==
    ProfileDocs \cup {[profile |-> doc, state_updated |-> TRUE] : doc \in ProfileDocs}

\* the answers of the hosting service
ServiceResponses ==
    {[ok |-> TRUE, id |-> <<"p1">>, url |-> "https://host/p/p1", manage_token |-> "t1"],
     [ok |-> TRUE, id |-> <<>>, url |-> "", manage_token |-> ""],
     [ok |-> FALSE, id |-> <<>>, url |-> "", manage_token |-> ""]}

Publish ==
    \E payload \in ProfilePayloads, response \in ServiceResponses :
        LET profile == load_profile_payload(payload) IN
        /\ posted' = <<[profile |-> profile]>>
        /\ state_file' = IF response.ok THEN cmd_publish(state_file, profile, response)
                         ELSE state_file
        /\ UNCHANGED <<host_os, export_out, plan_out, redact_io, cmd_out>>

InitPublish ==
    /\ host_os = OS_linux
    /\ state_file = EmptyState
    /\ export_out = NoExport
    /\ plan_out = NoPlan
    /\ posted = <<>>
    /\ redact_io = NoRedaction
    /\ cmd_out = NoCommand

NextPublish == Publish

SpecPublish == InitPublish /\ [][NextPublish]_vars

\* C9: the install descriptor of every item of every profile body POSTed to
\* the hosting service is a redacted value: the redactor leaves it unchanged.
C9_PostedRedacted ==
    \A b \in 1..Len(posted) :
        \A i \in 1..Len(posted[b].profile.items) :
            redact_value(posted[b].profile.items[i].install, <<>>)
                = posted[b].profile.items[i].install

(***************************************************************************)
(* Installer (parse_verify_arg, install_item).  A category is one word; an *)
(* install type, a command or a source is a string of units.               *)
(***************************************************************************)
\* the spellings of the model that str.strip().lower() changes
Spellings ==
    << <<"Application", "application">>, <<" application ", "application">>,
       <<"Manual", "manual">>, <<" manual ", "manual">>, <<"MCP", "mcp">> >>

\* word.strip().lower()
StripLowerWord(word) == IF DictHas(Spellings, word) THEN DictGet(Spellings, word) ELSE word

\* str.strip().lower() on a string of units
StripLower(s) == Strip([i \in 1..Len(s) |-> StripLowerWord(s[i])])


\* install = item.get("install", {}), replaced by {} when it is not an object
InstallOf(item) == IF IsMap(item.install) THEN item.install ELSE Map(<<>>)

InstallType(install) == StripLower(ValueGet(install, K_type, Str(<<"manual">>)).str)

\* manual_only, mutated: only the flag of the item counts
ManualOnlyByFlag(item, install_type, category) == item.manual_only

\* manual_only of install_item
ManualOnly(item, install_type, category) ==
    \/ item.manual_only
    \/ install_type = <<"manual">>
    \/ category \in ManualCategories

\* test_command.split(" ")[0]
FirstWord(s) ==
    IF Occurs(s, " ") THEN SubSeq(s, 1, IndexOf(s, " ") - 1) ELSE s

\* the type and argument of the verifier, mutated: a type that is not one of
\* the three checks is kept as declared
VerifyArgAsDeclared(verify_type, test_command, name) ==
    IF verify_type = "command_exists"
    THEN [type |-> verify_type,
          arg |-> IF test_command # <<>> THEN FirstWord(test_command) ELSE name]
    ELSE IF verify_type = "config_exists" THEN [type |-> verify_type, arg |-> test_command]
    ELSE IF verify_type = "mcp_connect" THEN [type |-> verify_type, arg |-> <<>>]
    ELSE [type |-> verify_type,
          arg |-> IF test_command # <<>> THEN test_command ELSE <<"Verify manually">>]

\* the type and argument of the verifier: a type that is not one of the
\* three checks is manual
VerifyArg(verify_type, test_command, name) ==
    IF verify_type = "command_exists"
    THEN [type |-> verify_type,
          arg |-> IF test_command # <<>> THEN FirstWord(test_command) ELSE name]
    ELSE IF verify_type = "config_exists" THEN [type |-> verify_type, arg |-> test_command]
    ELSE IF verify_type = "mcp_connect" THEN [type |-> verify_type, arg |-> <<>>]
    ELSE [type |-> "manual",
          arg |-> IF test_command # <<>> THEN test_command ELSE <<"Verify manually">>]

parse_verify_arg(item) ==
    VerifyArg(item.verification.type, Strip(item.verification.test_command), item.name)

\* the results install_item returns without running anything
ManualResult(success, name, category, message) ==
    [success |-> success, name |-> name, category |-> category, manual |-> TRUE,
     installed |-> FALSE, verification |-> "manual", message |-> message]

\* json.loads of the documents of the model: "{}" is an object, every other
\* text is no object or no JSON
IsObjectText(s) == s = <<"{}">>

\* the config_snippet as an object, or a list when there is none
McpConfig(config) ==
    IF IsStr(config) THEN (IF IsObjectText(config.str) THEN Map(<<>>) ELSE List(<<>>))
    ELSE config

Command(script, name, args) == [script |-> script, name |-> name, args |-> args]
Refused(message) == [script |-> "", message |-> message]

\* [x] when x is not empty
NonEmpty(x) == IF x = <<>> THEN <<>> ELSE <<x>>

McpCommand(name, config) ==
    IF IsMap(config) THEN Command("install-mcp.sh", name, <<redact_value(config, <<>>)>>)
    ELSE Refused("Missing valid MCP config_snippet")

CliCommand(name, cli_command, install_type) ==
    IF cli_command = <<>> THEN Refused("No CLI install command provided")
    ELSE Command("install-cli.sh", name,
                 <<cli_command, IF install_type = <<>> THEN <<"manual">> ELSE install_type>>)

SkillCommand(name, source, scope) ==
    Command("install-skill.sh", name,
            IF source = <<>> THEN <<>>
            ELSE <<source, IF scope = <<>> THEN <<"user">> ELSE scope>>)

\* the installer command of an item that is not manual-only, or the reason
\* why there is none
InstallCommand(name, category, install, install_type) ==
    IF category = "mcp" \/ install_type = <<"mcp">>
    THEN McpCommand(name, McpConfig(ValueGet(install, K_config_snippet, List(<<>>))))
    ELSE IF category = "cli-tool"
    THEN CliCommand(name, Strip(ValueGet(install, K_command, Str(<<>>)).str), install_type)
    ELSE IF category = "skill"
    THEN SkillCommand(name, Strip(ValueGet(install, K_source, Str(<<>>)).str),
                      Strip(ValueGet(install, K_scope, Str(<<"user">>)).str))
    ELSE IF category = "plugin"
    THEN Command("install-plugin.sh", name,
                 NonEmpty(Strip(ValueGet(install, K_repo, Str(<<>>)).str)))
    ELSE Refused("Manual setup required for this category")

VerifyCommand(name, verify) ==
    Command("verify-install.sh", name, <<verify.type>> \o NonEmpty(verify.arg))

\* the text run_cmd captures from a subprocess
Captured == "captured"

\* the two commands, mutated: the dry run runs the installer, and a failed
\* installer is followed by the verifier
RunCommandsRegardless(name, category, command, verify, dry_run, install_code, verify_code) ==
    IF dry_run
    THEN [result |-> [success |-> TRUE, name |-> name, category |-> category,
                      manual |-> FALSE, installed |-> FALSE,
                      verification |-> verify.type, dry_run |-> TRUE,
                      install_command |-> command,
                      verify_command |-> VerifyCommand(name, verify)],
          calls |-> <<command>>]
    ELSE [result |-> [success |-> install_code = 0 /\ (verify_code = 0 \/ verify.type = "manual"),
                      name |-> name, category |-> category, manual |-> FALSE,
                      installed |-> install_code = 0,
                      verification |-> IF install_code = 0 THEN verify.type ELSE "not_run",
                      install_command |-> command,
                      verify_command |-> VerifyCommand(name, verify),
                      stdout |-> Captured, stderr |-> Captured,
                      verify_stdout |-> Captured, verify_stderr |-> Captured],
          calls |-> <<command, VerifyCommand(name, verify)>>]

\* what install_item does with its two commands: the result it returns and
\* the subprocesses it ran
RunCommands(name, category, command, verify, dry_run, install_code, verify_code) ==
    IF dry_run
    THEN [result |-> [success |-> TRUE, name |-> name, category |-> category,
                      manual |-> FALSE, installed |-> FALSE,
                      verification |-> verify.type, dry_run |-> TRUE,
                      install_command |-> command,
                      verify_command |-> VerifyCommand(name, verify)],
          calls |-> <<>>]
    ELSE IF install_code # 0
    THEN [result |-> [success |-> FALSE, name |-> name, category |-> category,
                      manual |-> FALSE, installed |-> FALSE, verification |-> "not_run",
                      install_command |-> command,
                      stdout |-> Captured, stderr |-> Captured],
          calls |-> <<command>>]
    ELSE [result |-> [success |-> verify_code = 0 \/ verify.type = "manual",
                      name |-> name, category |-> category, manual |-> FALSE,
                      installed |-> TRUE, verification |-> verify.type,
                      install_command |-> command,
                      verify_command |-> VerifyCommand(name, verify),
                      stdout |-> Captured, stderr |-> Captured,
                      verify_stdout |-> Captured, verify_stderr |-> Captured],
          calls |-> <<command, VerifyCommand(name, verify)>>]

Installed(item, name, category, command, dry_run, install_code, verify_code) ==
    IF command.script = ""
    THEN [result |-> ManualResult(command.message = "Manual setup required for this category",
                                  name, category, <<command.message>>),
          calls |-> <<>>]
    ELSE RunCommands(name, category, command, parse_verify_arg(item), dry_run,
                     install_code, verify_code)

InstallTyped(item, name, category, install, install_type, dry_run, install_code, verify_code) ==
    IF ManualOnly(item, install_type, category)
    THEN [result |-> ManualResult(TRUE, name, category,
                                  IF Truthy(ValueGet(install, K_instructions, Str(<<>>)))
                                  THEN ValueGet(install, K_instructions, Str(<<>>)).str
                                  ELSE <<"Manual setup required">>),
          calls |-> <<>>]
    ELSE Installed(item, name, category,
                   InstallCommand(name, category, install, install_type),
                   dry_run, install_code, verify_code)

\* install_item: the result, and the subprocesses run, given the exit codes
\* the installer and the verifier would return
install_item(item, dry_run, install_code, verify_code) ==
    InstallTyped(item, Strip(item.name), StripLowerWord(item.category), InstallOf(item),
                 InstallType(InstallOf(item)), dry_run, install_code, verify_code)

(***************************************************************************)
(* Specification of install-item: one item read from the item file, one    *)
(* call of install_item.                                                   *)
(***************************************************************************)
Instr_open == <<"Open the app once">>

ItemCategories ==
    {"application", "Application", "workflow-pattern", "model-preference",
     "mcp", "cli-tool", "skill", "plugin", "hook"}

ItemInstalls ==
    {Str(<<"brew install fzf">>),
     Map(<<>>),
     Map(<< <<K_type, Str(<<"manual">>)>>, <<K_instructions, Str(Instr_open)>>,
            <<K_command, Str(<<"brew install fzf">>)>> >>),
     Map(<< <<K_type, Str(<<" manual ">>)>> >>),
     Map(<< <<K_type, Str(<<>>)>>, <<K_command, Str(<<"brew install fzf">>)>> >>),
     Map(<< <<K_type, Str(<<"package">>)>>, <<K_command, Str(<<"brew install fzf">>)>>,
            <<K_instructions, Str(Instr_open)>> >>),
     Map(<< <<K_type, Str(<<"package">>)>>, <<K_command, Str(<<" ">>)>> >>),
     Map(<< <<K_type, Str(<<"MCP">>)>>, <<K_config_snippet, Config_ctx>> >>),
     Map(<< <<K_type, Str(<<"mcp">>)>>, <<K_config_snippet, Str(<<"{}">>)>> >>),
     Map(<< <<K_type, Str(<<"mcp">>)>>, <<K_config_snippet, Str(<<"{">>)>> >>),
     Map(<< <<K_type, Str(<<"git">>)>>, <<K_source, Str(<<"https://host/skill">>)>>,
            <<K_repo, Str(<<"owner/repo">>)>> >>)}

ItemVerifications ==
    {[type |-> "manual", test_command |-> <<>>],
     [type |-> "command_exists", test_command |-> <<"fzf", " ", "--version">>],
     [type |-> "command_exists", test_command |-> <<>>],
     [type |-> "mcp_connect", test_command |-> <<>>],
     [type |-> "config_exists", test_command |-> <<".mcp.json">>],
     [type |-> "http_check", test_command |-> <<>>]}

ItemFiles ==
    [name : {N_fzf}, category : ItemCategories, manual_only : BOOLEAN,
     install : ItemInstalls, verification : ItemVerifications]

ExitCodes == {0, 1}

InstallInvocations ==
    {[cmd |-> "install-item", called |-> FALSE, item |-> item, dry_run |-> dry_run,
      install_code |-> ic, verify_code |-> vc] :
        item \in ItemFiles, dry_run \in BOOLEAN, ic \in ExitCodes, vc \in ExitCodes}

InstallItem ==
    /\ cmd_out.cmd = "install-item"
    /\ ~cmd_out.called
    /\ LET done == install_item(cmd_out.item, cmd_out.dry_run, cmd_out.install_code,
                                cmd_out.verify_code)
       IN cmd_out' = [cmd |-> "install-item", called |-> TRUE, item |-> cmd_out.item,
                      dry_run |-> cmd_out.dry_run,
                      install_code |-> cmd_out.install_code,
                      verify_code |-> cmd_out.verify_code,
                      result |-> done.result, calls |-> done.calls]
    /\ UNCHANGED <<host_os, state_file, export_out, plan_out, posted, redact_io>>

InitInstall ==
    /\ host_os = OS_linux
    /\ state_file = EmptyState
    /\ export_out = NoExport
    /\ plan_out = NoPlan
    /\ posted = <<>>
    /\ redact_io = NoRedaction
    /\ cmd_out \in InstallInvocations

NextInstall == InstallItem

SpecInstall == InitInstall /\ [][NextInstall]_vars

ItemInstalled == cmd_out.cmd = "install-item" /\ cmd_out.called

\* the items the claim calls manual-only
StatedManual(item) ==
    \/ item.manual_only
    \/ IsMap(item.install) /\ ValueGet(item.install, K_type, Str(<<>>)) = Str(<<"manual">>)
    \/ item.category \in ManualCategories

\* the instructions of the item, or the default text
StatedInstructions(item) ==
    IF IsMap(item.install) /\ DictHas(item.install.map, K_instructions)
    THEN DictGet(item.install.map, K_instructions).str
    ELSE <<"Manual setup required">>

\* C20: for every item that is manual-only (manual_only true, install type
\* manual, or category application, workflow-pattern or model-preference),
\* install_item returns success = true, installed = false and the manual
\* instructions, and runs neither the installer nor the verifier, with and
\* without dry-run.
C20_ManualOnlyRunsNothing ==
    (ItemInstalled /\ StatedManual(cmd_out.item)) =>
        /\ cmd_out.result.success
        /\ ~cmd_out.result.installed
        /\ cmd_out.result.manual
        /\ cmd_out.result.message = StatedInstructions(cmd_out.item)
        /\ cmd_out.calls = <<>>

\* a command-line tool with an install command that is manual-only by its
\* flag alone, installed without dry-run
C20_Witness ==
    /\ ItemInstalled
    /\ ~cmd_out.dry_run
    /\ cmd_out.item.manual_only
    /\ cmd_out.item.category = "cli-tool"
    /\ cmd_out.item.install
          = Map(<< <<K_type, Str(<<"package">>)>>, <<K_command, Str(<<"brew install fzf">>)>>,
                   <<K_instructions, Str(Instr_open)>> >>)
    /\ cmd_out.result.message = Instr_open
    /\ cmd_out.calls = <<>>

\* an install-item call on an item that is not manual-only and has an
\* installer command
Automatable == ItemInstalled /\ ~cmd_out.result.manual

\* the subprocesses a call without dry-run runs on the same item when the
\* installer and the verifier exit 0
RunWithoutDryRun == install_item(cmd_out.item, FALSE, 0, 0).calls

\* C21: a dry run of install_item runs no subprocess, whatever the item; for
\* an item with an installer it returns as install_command and
\* verify_command the two commands that the call without dry-run runs.
C21_DryRunRunsNothing ==
    (ItemInstalled /\ cmd_out.dry_run) =>
        /\ cmd_out.calls = <<>>
        /\ ~cmd_out.result.manual =>
              /\ cmd_out.result.success
              /\ ~cmd_out.result.installed
              /\ RunWithoutDryRun = <<cmd_out.result.install_command,
                                      cmd_out.result.verify_command>>

\* a dry run on a command-line tool whose verifier takes an argument
C21_Witness ==
    /\ Automatable
    /\ cmd_out.dry_run
    /\ cmd_out.item.category = "cli-tool"
    /\ cmd_out.result.install_command.script = "install-cli.sh"
    /\ cmd_out.result.verify_command.args = <<"command_exists", <<"fzf">>>>

IsVerifier(call) == call.script = "verify-install.sh"

\* C22: without dry-run the verifier runs only as the second subprocess,
\* after an installer that exited 0; when the installer exits non-zero the
\* result is success = false, installed = false, verification = not_run and
\* the installer is the only subprocess run.
C22_VerifierAfterInstaller ==
    (ItemInstalled /\ ~cmd_out.dry_run) =>
        /\ \A i \in 1..Len(cmd_out.calls) :
              IsVerifier(cmd_out.calls[i]) =>
                  /\ i = 2
                  /\ ~IsVerifier(cmd_out.calls[1])
                  /\ cmd_out.install_code = 0
        /\ (~cmd_out.result.manual /\ cmd_out.install_code # 0) =>
              /\ ~cmd_out.result.success
              /\ ~cmd_out.result.installed
              /\ cmd_out.result.verification = "not_run"
              /\ Len(cmd_out.calls) = 1
              /\ ~IsVerifier(cmd_out.calls[1])

\* an installer that failed although the verifier would have passed
C22_Witness ==
    /\ Automatable
    /\ ~cmd_out.dry_run
    /\ cmd_out.install_code = 1
    /\ cmd_out.verify_code = 0
    /\ cmd_out.calls = <<cmd_out.result.install_command>>

\* a call without dry-run whose installer exited 0
InstallerPassed == Automatable /\ ~cmd_out.dry_run /\ cmd_out.install_code = 0

\* C23, as stated: when the installer exits 0 the verifier is run, installed
\* is true and success is (verifier exit code = 0) or (the type declared in
\* the verification descriptor of the item is manual).
C23_SuccessByDeclaredType ==
    InstallerPassed =>
        /\ Len(cmd_out.calls) = 2 /\ IsVerifier(cmd_out.calls[2])
        /\ cmd_out.result.installed
        /\ cmd_out.result.success
              = (cmd_out.verify_code = 0 \/ cmd_out.item.verification.type = "manual")

VerifierChecks == {"command_exists", "config_exists", "mcp_connect"}

\* C23, amended: when the installer exits 0 the verifier is run, installed is
\* true and success is (verifier exit code = 0) or (the declared type is not
\* one of command_exists, config_exists and mcp_connect); every such type is
\* handed to the verifier, and reported, as manual.
C23_SuccessByResolvedType ==
    InstallerPassed =>
        /\ Len(cmd_out.calls) = 2 /\ IsVerifier(cmd_out.calls[2])
        /\ cmd_out.result.installed
        /\ cmd_out.result.success
              = (cmd_out.verify_code = 0
                 \/ cmd_out.item.verification.type \notin VerifierChecks)
        /\ cmd_out.result.verification
              = IF cmd_out.item.verification.type \in VerifierChecks
                THEN cmd_out.item.verification.type ELSE "manual"
        /\ cmd_out.calls[2].args[1] = cmd_out.result.verification

\* an installed item of an undeclared verification type whose verifier failed
C23_Witness ==
    /\ InstallerPassed
    /\ cmd_out.verify_code = 1
    /\ cmd_out.item.verification.type = "http_check"
    /\ cmd_out.result.success

ResolvedFields == {"install_command", "verify_command", "stdout", "stderr"}

InstallerCategories == {"mcp", "cli-tool", "skill", "plugin"}

\* C24: every result of an install_item call without dry-run on an item that
\* is not manual-only and belongs to a category with an installer carries
\* the install command, the verify command, stdout and stderr.
C24_ResultCarriesCommands ==
    (/\ ItemInstalled
     /\ ~cmd_out.dry_run
     /\ StripLowerWord(cmd_out.item.category) \in InstallerCategories
     /\ ~ManualOnly(cmd_out.item, InstallType(InstallOf(cmd_out.item)),
                    StripLowerWord(cmd_out.item.category)))
    => ResolvedFields \subseteq DOMAIN cmd_out.result

(***************************************************************************)
(* The saved-apps and tombstone commands (cmd_saved_apps,                  *)
(* resolve_profile_id, cmd_tombstone).                                     *)
(***************************************************************************)
\* the removal loop for one token, mutated: only the key spelled like the
\* token is deleted
KeptAfterExactCase(saved, token) == SelectSeq(saved, LAMBDA kv : kv[1] # token)

\* the removal loop for one token: every key equal to it in lower case is
\* deleted
KeptAfter(saved, token) == SelectSeq(saved, LAMBDA kv : Lower(kv[1]) # Lower(token))

DeletedBy(saved, token) ==
    DictKeys(SelectSeq(saved, LAMBDA kv : Lower(kv[1]) = Lower(token)))

\* the loop over the requested tokens: what is left and what was removed
RECURSIVE RemoveRequested(_, _)
RemoveRequested(saved, requested) ==
    IF requested = <<>> THEN [saved |-> saved, removed |-> <<>>]
    ELSE LET front == RemoveRequested(saved, SubSeq(requested, 1, Len(requested) - 1))
             token == requested[Len(requested)]
         IN [saved |-> KeptAfter(front.saved, token),
             removed |-> front.removed \o DeletedBy(front.saved, token)]

\* sorted(saved.keys(), key=lambda x: x.lower()): a stable sort
RECURSIVE InsertByLower(_, _)
InsertByLower(x, sorted) ==
    IF sorted = <<>> THEN <<x>>
    ELSE IF StrLess(Lower(x), Lower(Head(sorted))) THEN <<x>> \o sorted
    ELSE <<Head(sorted)>> \o InsertByLower(x, Tail(sorted))

RECURSIVE SortedByLower(_)
SortedByLower(list) ==
    IF list = <<>> THEN <<>>
    ELSE InsertByLower(list[Len(list)], SortedByLower(SubSeq(list, 1, Len(list) - 1)))

Row(saved, name) ==
    [name |-> name,
     last_seen_state |-> DictGet(saved, name).last_seen_state,
     priority |-> DictGet(saved, name).priority,
     last_selected_at |-> DictGet(saved, name).last_selected_at]

Rows(saved, names) == [i \in 1..Len(names) |-> Row(saved, names[i])]

SavedAppsResult(state, removal) ==
    [state |-> [state EXCEPT !.saved_applications = removal.saved],
     output |-> [saved_applications |-> Rows(removal.saved,
                                             SortedByLower(DictKeys(removal.saved))),
                 removed |-> SortedStrs(removal.removed)]]

\* cmd_saved_apps: the state file it leaves and the document it prints
cmd_saved_apps(state, remove) ==
    SavedAppsResult(state, RemoveRequested(state.saved_applications, parse_csv(remove)))

\* a target is an identifier, or the address of a profile followed by one
UrlPrefix == "https://host/p/"

resolve_profile_id(target) ==
    IF Head(Strip(target)) = UrlPrefix THEN Tail(Strip(target)) ELSE Strip(target)

\* the manage token of cmd_tombstone: the argument, or the one saved at
\* publish time; "" when there is none
ManageToken(state, profile_id, manage_token) ==
    IF manage_token # "" THEN manage_token
    ELSE IF DictHas(state.published_profiles, profile_id)
    THEN DictGet(state.published_profiles, profile_id).manage_token
    ELSE ""

Tombstoned(entry) ==
    [url |-> entry.url, manage_token |-> entry.manage_token, status |-> "tombstoned",
     created_at |-> entry.created_at, tombstoned_at |-> Now]

\* cmd_tombstone, mutated: the record of the profile is deleted
cmd_tombstone_deleting(state, profile_id) ==
    [state EXCEPT !.published_profiles = DictDel(@, profile_id)]

\* cmd_tombstone once the service has answered: the state file it leaves
cmd_tombstone(state, profile_id) ==
    IF DictHas(state.published_profiles, profile_id)
    THEN [state EXCEPT !.published_profiles =
            DictSet(@, profile_id, Tombstoned(DictGet(@, profile_id)))]
    ELSE state

(***************************************************************************)
(* Specification of the commands that read and write the state file, in    *)
(* any order: export, publish, tombstone and saved-apps.  Each command     *)
(* leaves in cmd_out what it was given and what it printed, and in posted  *)
(* what it sent to the hosting service.                                    *)
(***************************************************************************)
A_Arc == <<"A","r","c">>

MainDetected == {<<>>, <<A_Zed>>, <<A_Arc, A_zed>>}

MainArgs ==
    {DefaultArgs, [DefaultArgs EXCEPT !.dry_run = TRUE],
     [DefaultArgs EXCEPT !.required_items = <<A_Zed>>]}

MainProfile == ProfileDoc(<<ProfileItem(N_fzf, Rec_fzf.install)>>)

MainResponses ==
    {[ok |-> TRUE, id |-> <<"p1">>, url |-> "https://host/p/p1", manage_token |-> "t1"],
     [ok |-> FALSE, id |-> <<>>, url |-> "", manage_token |-> ""]}

Targets == {<<"p1">>, <<UrlPrefix, "p1">>}
Removals == {<<>>, <<A_zed>>, <<A_Arc>>}
TokenArgs == {"", "t9"}

ExportCmd ==
    \E apps \in MainDetected, args \in MainArgs :
        /\ state_file' = cmd_export(state_file, MachineWithApps(apps, host_os), args,
                                    host_os).state
        /\ cmd_out' = [cmd |-> "export", detected |-> apps, dry_run |-> args.dry_run]
        /\ posted' = <<>>
        /\ UNCHANGED <<host_os, export_out, plan_out, redact_io>>

PublishCmd ==
    \E response \in MainResponses :
        /\ posted' = <<[profile |-> MainProfile]>>
        /\ state_file' = IF response.ok THEN cmd_publish(state_file, MainProfile, response)
                         ELSE state_file
        /\ cmd_out' = [cmd |-> "publish", success |-> response.ok, response |-> response]
        /\ UNCHANGED <<host_os, export_out, plan_out, redact_io>>

TombstoneCmd ==
    \E target \in Targets, manage_token \in TokenArgs, answered \in BOOLEAN :
        LET token == ManageToken(state_file, resolve_profile_id(target), manage_token) IN
        /\ posted' = IF token = "" THEN <<>>
                     ELSE <<[tombstone |-> resolve_profile_id(target), bearer |-> token]>>
        /\ state_file' = IF token # "" /\ answered
                         THEN cmd_tombstone(state_file, resolve_profile_id(target))
                         ELSE state_file
        /\ cmd_out' = [cmd |-> "tombstone", success |-> token # "" /\ answered,
                       id |-> resolve_profile_id(target)]
        /\ UNCHANGED <<host_os, export_out, plan_out, redact_io>>

SavedAppsCmd ==
    \E remove \in Removals :
        LET result == cmd_saved_apps(state_file, remove) IN
        /\ state_file' = result.state
        /\ cmd_out' = [cmd |-> "saved-apps", remove |-> remove,
                       saved_before |-> state_file.saved_applications,
                       output |-> result.output]
        /\ posted' = <<>>
        /\ UNCHANGED <<host_os, export_out, plan_out, redact_io>>

Init ==
    /\ host_os = OS_linux
    /\ state_file = EmptyState
    /\ export_out = NoExport
    /\ plan_out = NoPlan
    /\ posted = <<>>
    /\ redact_io = NoRedaction
    /\ cmd_out = NoCommand

Next == ExportCmd \/ PublishCmd \/ TombstoneCmd \/ SavedAppsCmd

Spec == Init /\ [][Next]_vars

\* C12: a key leaves saved_applications only in a saved-apps step that was
\* given names to remove; such a step deletes every key equal to one of the
\* names in lower case, whatever its last_seen_state, and leaves every other
\* entry as it was, in its place.
C12_OnlyRemoveDeletes ==
    [][/\ (Range(DictKeys(SavedNow)) \ Range(DictKeys(SavedNow')) # {})
            => (cmd_out'.cmd = "saved-apps" /\ cmd_out'.remove # <<>>)
       /\ cmd_out'.cmd = "saved-apps"
            => SavedNow' = SelectSeq(SavedNow,
                                     LAMBDA kv : Lower(kv[1]) \notin LowerSet(cmd_out'.remove))]_vars

\* a remove of one name that deleted an installed and a missing entry spelled
\* differently and left another entry in place
C12_Witness ==
    /\ cmd_out.cmd = "saved-apps"
    /\ cmd_out.remove = <<A_zed>>
    /\ cmd_out.output.removed = <<A_Zed, A_zed>>
    /\ {cmd_out.saved_before[i][2].last_seen_state : i \in 1..Len(cmd_out.saved_before)}
          = {"installed", "missing"}
    /\ DictKeys(SavedNow) = <<A_Arc>>

PublishedNow == state_file.published_profiles

\* C25: a publish the service answered leaves a record of the returned id
\* with status active and the returned manage_token; a tombstone the service
\* answered leaves the record of the id, when there is one, in place with
\* status tombstoned; a publish or tombstone whose HTTP call failed leaves
\* the state file as it was.
C25_Lifecycle ==
    [][/\ (cmd_out'.cmd = "publish" /\ cmd_out'.success) =>
             /\ DictHas(PublishedNow', cmd_out'.response.id)
             /\ DictGet(PublishedNow', cmd_out'.response.id).status = "active"
             /\ DictGet(PublishedNow', cmd_out'.response.id).manage_token
                   = cmd_out'.response.manage_token
       /\ (cmd_out'.cmd = "tombstone" /\ cmd_out'.success
           /\ DictHas(PublishedNow, cmd_out'.id)) =>
             /\ DictHas(PublishedNow', cmd_out'.id)
             /\ DictGet(PublishedNow', cmd_out'.id).status = "tombstoned"
             /\ DictGet(PublishedNow', cmd_out'.id).manage_token
                   = DictGet(PublishedNow, cmd_out'.id).manage_token
       /\ (cmd_out'.cmd \in {"publish", "tombstone"} /\ ~cmd_out'.success) =>
             state_file' = state_file]_vars

\* a tombstone, by the saved token, of a profile published from this machine
C25_Witness ==
    /\ cmd_out.cmd = "tombstone"
    /\ cmd_out.success
    /\ posted = <<[tombstone |-> <<"p1">>, bearer |-> "t1"]>>
    /\ DictHas(PublishedNow, <<"p1">>)
    /\ DictGet(PublishedNow, <<"p1">>).status = "tombstoned"

\* C26: a record of published_profiles with status tombstoned is still there,
\* with status tombstoned, after every step.
C26_TombstonePermanent ==
    [][\A i \in 1..Len(PublishedNow) :
          PublishedNow[i][2].status = "tombstoned" =>
              /\ DictHas(PublishedNow', PublishedNow[i][1])
              /\ DictGet(PublishedNow', PublishedNow[i][1]).status = "tombstoned"]_vars

(***************************************************************************)
(* Specification of two invocations on one state file: one rewrites it     *)
(* with write_json_file while the other reads it with load_state.  Here    *)
(* state_file is the content of the file on disk, as the chunks json.dump  *)
(* has written so far; open(path, "w") truncates the file in place and the *)
(* chunks reach the disk one buffer at a time, so that a reader may find   *)
(* any prefix of the document.                                             *)
(***************************************************************************)
Chunk(kind, value) == [kind |-> kind, value |-> value]

ChunksOf(kind, values) == [i \in 1..Len(values) |-> Chunk(kind, values[i])]

\* json.dump(payload, f): the chunks of the document in the order written
json_dump(doc) ==
    <<Chunk("open", <<>>)>>
    \o ChunksOf("saved_application", doc.saved_applications)
    \o ChunksOf("published_profile", doc.published_profiles)
    \o <<Chunk("last_exported_at", <<doc.last_exported_at>>), Chunk("close", <<>>)>>

\* json.load accepts the content: it is a whole document
IsDocument(chunks) == chunks # <<>> /\ chunks[Len(chunks)].kind = "close"

ValuesOf(chunks, kind) ==
    LET found == SelectSeq(chunks, LAMBDA c : c.kind = kind) IN
    [i \in 1..Len(found) |-> found[i].value]

\* parse_json_file on a whole document
parse_json_file(chunks) ==
    [saved_applications |-> ValuesOf(chunks, "saved_application"),
     published_profiles |-> ValuesOf(chunks, "published_profile"),
     last_exported_at |-> ValuesOf(chunks, "last_exported_at")[1][1]]

\* load_json_file: the fallback when json.load raises JSONDecodeError
load_json_file(chunks, fallback) ==
    IF IsDocument(chunks) THEN parse_json_file(chunks) ELSE fallback

\* load_state: the document of the file, or default_state()
load_state(chunks) == load_json_file(chunks, EmptyState)

\* state documents the commands leave: after an export that detected Zed,
\* after a later one that detected Arc and zed, after a publish, and after
\* saved-apps --remove zed
Doc_Zed == cmd_export(EmptyState, MachineWithApps(<<A_Zed>>, OS_linux), DefaultArgs, OS_linux).state
Doc_Arc == cmd_export(Doc_Zed, MachineWithApps(<<A_Arc, A_zed>>, OS_linux), DefaultArgs, OS_linux).state
Doc_Published ==
    cmd_publish(Doc_Zed, MainProfile,
                [ok |-> TRUE, id |-> <<"p1">>, url |-> "https://host/p/p1", manage_token |-> "t1"])

Doc_Removed == cmd_saved_apps(Doc_Arc, <<A_zed>>).state

StateDocs == {Doc_Zed, Doc_Arc, Doc_Published, Doc_Removed}

NotLoaded == <<>>

\* write_json_file, line 99: open(path, "w") truncates the file
OpenFile ==
    /\ cmd_out.cmd = "write"
    /\ ~cmd_out.writing
    /\ \E doc \in StateDocs \ {cmd_out.new} :
          cmd_out' = [cmd |-> "write", writing |-> TRUE, old |-> cmd_out.new,
                      new |-> doc, left |-> json_dump(doc), loaded |-> NotLoaded]
    /\ state_file' = <<>>
    /\ UNCHANGED <<host_os, export_out, plan_out, posted, redact_io>>

\* write_json_file, line 100: the next chunk of json.dump reaches the file
WriteChunk ==
    /\ cmd_out.cmd = "write"
    /\ cmd_out.writing
    /\ cmd_out.left # <<>>
    /\ state_file' = Append(state_file, Head(cmd_out.left))
    /\ cmd_out' = [cmd_out EXCEPT !.left = Tail(@)]
    /\ UNCHANGED <<host_os, export_out, plan_out, posted, redact_io>>

\* write_json_file: the with block closes the file
CloseFile ==
    /\ cmd_out.cmd = "write"
    /\ cmd_out.writing
    /\ cmd_out.left = <<>>
    /\ cmd_out' = [cmd_out EXCEPT !.writing = FALSE]
    /\ UNCHANGED <<host_os, state_file, export_out, plan_out, posted, redact_io>>

\* the other invocation calls load_state
LoadState ==
    /\ cmd_out.cmd = "write"
    /\ cmd_out' = [cmd_out EXCEPT !.loaded = <<load_state(state_file)>>]
    /\ UNCHANGED <<host_os, state_file, export_out, plan_out, posted, redact_io>>

InitRace ==
    /\ host_os = OS_linux
    /\ \E doc \in StateDocs :
          /\ state_file = json_dump(doc)
          /\ cmd_out = [cmd |-> "write", writing |-> FALSE, old |-> doc, new |-> doc,
                        left |-> <<>>, loaded |-> NotLoaded]
    /\ export_out = NoExport
    /\ plan_out = NoPlan
    /\ posted = <<>>
    /\ redact_io = NoRedaction

NextRace == OpenFile \/ WriteChunk \/ CloseFile \/ LoadState

SpecRace == InitRace /\ [][NextRace]_vars

\* C27: what load_state returns while the file is rewritten is the whole old
\* document or the whole new one.
C27_NeverHalfWritten ==
    (cmd_out.cmd = "write" /\ cmd_out.loaded # NotLoaded) =>
        cmd_out.loaded[1] \in {cmd_out.old, cmd_out.new}

====
